---- MODULE Spec2Model ----
(***************************************************************************)
(* Crypto-agility engine of the E2EE chat system: the Key Management       *)
(* Service (security/key-mgmt/key-manager.ts) and the Crypto Provider      *)
(* Factory (crypto/core/factory, carried in crypto/classical/              *)
(* rsa-provider.ts).                                                       *)
(*                                                                         *)
(* An async method is split at its awaits on work that settles outside     *)
(* the caller (createKeyPair -> crypto.subtle.generateKey, the threat      *)
(* level read of the rotation scan, instantiateProvider -> import()); the  *)
(* code between two awaits is one step.  Spec, SpecEvents and SpecSweep    *)
(* run the key manager with one call in flight at a time (each call        *)
(* awaited before the next); SpecFactory runs the factory with the         *)
(* createProvider calls of two callers overlapping.                        *)
(*                                                                         *)
(* Time is counted in days: Date.now() and new Date() read `now`.  A key   *)
(* identifier 'key_' + Date.now() + '_' + random is the pair <<now, r>>,   *)
(* r standing for the part of the identifier below the clock's resolution  *)
(* and the random suffix.                                                  *)
(***************************************************************************)
EXTENDS Integers, Sequences, FiniteSets, TLC

VARIABLES
    now,             \* the wall clock read by Date.now() / new Date()
    keys,            \* KeyManagementService.keys: id -> KeyMetadata
    keyOrder,        \* insertion order of `keys` (Map iteration order)
    keyStore,        \* KeyManagementService.keyStore: store key -> material
    nextPair,        \* number of key pairs the primitive has produced
    eventListeners,  \* KeyManagementService.eventListeners
    task,            \* position and locals of the key manager call in flight
    ret,             \* outcome of the call that completed in the last step
    emitted,         \* events passed to emitEvent in the last step, in order
    delivered,       \* listener invocations of the last step, in order
    rotations,       \* history, kept in SpecOverlap only: the rotated events emitted so far
    config,          \* CryptoProviderFactory.config
    cache,           \* CryptoProviderFactory.cache: algorithm -> provider
    configVersion,   \* number of updateConfig calls so far
    nextProvider,    \* number of providers constructed so far
    unavailable,     \* provider modules whose import() rejects
    ftask,           \* position and locals of each createProvider call
    fret,            \* outcome of the factory call that completed in the last step
    served,          \* history, kept in SpecCache only: the provider the latest
                     \* createProvider call for each selected algorithm returned
                     \* since the cache was last cleared
    pkeys,           \* key pairs the providers have generated: number -> owner, kind
    nextSecret,      \* number of random secrets (key pairs, AES keys) drawn so far
    sent,            \* the latest ciphertext a provider returned, with its inputs
    pret,            \* outcome of the provider call made in the last step
    envelope,        \* cryptoUtils: the message envelope in hand and what was read from it
    report,          \* the latest getKeyHealthReport result
    advice,          \* the latest algorithm recommendation, with the score it was made for
    threat,          \* the latest threat score computed, with the factors it was computed from
    auditHistory,    \* SecurityMonitorService.auditHistory
    keyEvents,       \* SecurityMonitorService.keyEvents: key id -> events
    mret,            \* outcome of the monitor call made in the last step
    activeUsers,     \* relay server: activeUsers, socket id -> user
    sockets          \* relay server: each socket's connection and its handlers in flight

kmVars == <<now, keys, keyOrder, keyStore, nextPair, eventListeners,
            task, ret, emitted, delivered, rotations>>

factoryVars == <<config, cache, configVersion, nextProvider, unavailable, ftask, fret,
                 served>>

vars == <<now, keys, keyOrder, keyStore, nextPair, eventListeners,
          task, ret, emitted, delivered, rotations,
          config, cache, configVersion, nextProvider, unavailable, ftask, fret, served,
          pkeys, nextSecret, sent, pret, envelope, report, advice,
          threat, auditHistory, keyEvents, mret, activeUsers, sockets>>

providerVars == <<pkeys, nextSecret, sent, pret>>

monitorVars == <<threat, auditHistory, keyEvents, mret>>

relayVars == <<activeUsers, sockets>>

utilVars == <<envelope, report, advice, threat, auditHistory, keyEvents, mret,
              activeUsers, sockets>>

(***************************************************************************)
(* Bounds of the model.                                                    *)
(***************************************************************************)
MaxKeys == 2        \* key pairs generated in one run
MaxSweepKeys == 3   \* keys in the table when a rotation sweep starts
MaxReplacements == 2 \* key pairs generated by the sweeps of one run
MaxRand == 2        \* distinct random suffixes of generateKeyId
MaxListeners == 2   \* length of the listener list
MaxUpdates == 2     \* updateConfig calls in one run
MaxProviders == 3   \* providers constructed in one run
MaxSecrets == 3     \* random secrets drawn in one run
MaxPairs == 1       \* key pairs generated in one run
MaxPadding == 1     \* letters 'a' leading a chat message
MaxHealthKeys == 6   \* keys of a table handed to getKeyHealthReport
HistoryLimit == 3    \* a maximum the audit history is held against
MaxEvents == 3       \* key lifecycle events recorded in one run
MaxJoins == 2        \* user:join events one socket sends
MaxUnits == 1       \* code units of a plaintext besides its run of 'a'

(***************************************************************************)
(* CryptoAlgorithmType and the string tests the key manager applies to it. *)
(***************************************************************************)
CryptoAlgorithmType ==
    { "RSA-OAEP", "ECDH",
      "ML-KEM-512", "ML-KEM-768", "ML-KEM-1024",
      "CRYSTALS-Dilithium", "SPHINCS+",
      "Hybrid-RSA-ML-KEM", "Hybrid-ECDH-ML-KEM",
      "Hybrid-RSAOAEP-MLKEM512", "Hybrid-RSAOAEP-MLKEM1024" }

StartsWith(s, p) == Len(s) >= Len(p) /\ SubSeq(s, 1, Len(p)) = p

Includes(s, p) ==
    \E i \in 1..(Len(s) - Len(p) + 1) : SubSeq(s, i, i + Len(p) - 1) = p

isQuantumSafeAlgorithm(algorithm) ==
    \/ StartsWith(algorithm, "ML-KEM")
    \/ StartsWith(algorithm, "Dilithium")
    \/ StartsWith(algorithm, "Hybrid")

getAlgorithmSecurityLevel(algorithm) ==
    IF Includes(algorithm, "1024") THEN "maximum"
    ELSE IF Includes(algorithm, "768") THEN "high"
    ELSE IF Includes(algorithm, "512") THEN "medium"
    ELSE IF Includes(algorithm, "RSA") THEN "low"
    ELSE "medium"

getKeyUsage(algorithm) ==
    IF Includes(algorithm, "KEM") THEN "kex"
    ELSE IF Includes(algorithm, "Dilithium") THEN "signing"
    ELSE "encryption"

(***************************************************************************)
(* initializeDefaultPolicies: maxAge in days, quantumThreatThreshold.      *)
(***************************************************************************)
PolicyAlgorithms ==
    { "RSA-OAEP", "ML-KEM-512", "ML-KEM-768", "ML-KEM-1024", "Hybrid-RSA-ML-KEM" }

rotationPolicies ==
    [ a \in PolicyAlgorithms |->
        CASE a = "RSA-OAEP"          -> [maxAge |-> 90,  quantumThreatThreshold |-> 50]
          [] a = "ML-KEM-512"        -> [maxAge |-> 365, quantumThreatThreshold |-> 95]
          [] a = "ML-KEM-768"        -> [maxAge |-> 365, quantumThreatThreshold |-> 95]
          [] a = "ML-KEM-1024"       -> [maxAge |-> 730, quantumThreatThreshold |-> 98]
          [] a = "Hybrid-RSA-ML-KEM" -> [maxAge |-> 180, quantumThreatThreshold |-> 70] ]

(***************************************************************************)
(* Values.                                                                 *)
(***************************************************************************)
None == "none"          \* an absent string-valued field
NoKey == <<>>           \* an absent key identifier
NoDate == -1            \* an absent Date (lastUsed, rotatedAt, expiresAt)

\* The instants at which the clock is read: the day the service starts, the
\* day a classical key made on that day expires, and the day after.
Instants ==
    { 0, rotationPolicies["RSA-OAEP"].maxAge, rotationPolicies["RSA-OAEP"].maxAge + 1 }

\* getCurrentQuantumThreatLevel: 45 + Math.random() * 20 lies in [45, 65);
\* the least value, the classical policy's threshold, and a value near the top.
getCurrentQuantumThreatLevel == { 45, 50, 64 }

\* generateKeyId: 'key_' + Date.now() + '_' + Math.random().toString(36)...
generateKeyId(r) == <<now, r>>

\* Algorithms generateKey is called with: the one createKeyPair implements,
\* and two it does not.
RequestedAlgorithms == { "RSA-OAEP", "ML-KEM-768", "CRYSTALS-Dilithium" }

\* An identifier that names no key.
UnknownKey == <<0, 0>>

Callers == { "c1", "c2" }
MainCaller == "c1"

Listeners == { "recorder", "thrower" }

ListenerThrows(l) == l = "thrower"

IdleTask ==
    [ pc |-> "idle", top |-> None, algorithm |-> None, keyId |-> NoKey,
      target |-> NoKey, scanNow |-> 0, scanPos |-> 0, ageFlag |-> FALSE,
      flagged |-> <<>>, samples |-> <<>>, qpos |-> 0,
      rotated |-> <<>>, failed |-> <<>>, attempts |-> <<>> ]

NoRet ==
    [ caller |-> None, op |-> None, arg |-> NoKey, algorithm |-> None,
      ok |-> TRUE, value |-> NoKey, error |-> None,
      rotated |-> <<>>, failed |-> <<>>,
      scanNow |-> 0, flagged |-> <<>>, samples |-> <<>>, attempts |-> <<>> ]

(***************************************************************************)
(* Reads: getKey, getPublicKey, getKeyMetadata.                            *)
(***************************************************************************)
PrivSlot(keyId) == <<keyId, "priv">>      \* keyStore key  keyId
PubSlot(keyId) == <<keyId, "pub">>        \* keyStore key  `${keyId}_pub`

NoMaterial == [pair |-> 0, half |-> None]  \* null

getKey(keyId) ==
    IF PrivSlot(keyId) \in DOMAIN keyStore THEN keyStore[PrivSlot(keyId)] ELSE NoMaterial

getPublicKey(keyId) ==
    IF PubSlot(keyId) \in DOMAIN keyStore THEN keyStore[PubSlot(keyId)] ELSE NoMaterial

NoMetadata == [id |-> NoKey, status |-> None]   \* null

getKeyMetadata(keyId) ==
    IF keyId \in DOMAIN keys THEN keys[keyId] ELSE NoMetadata

(***************************************************************************)
(* emitEvent: for (const listener of this.eventListeners), an iteration    *)
(* over the live array: position i is read while i < length, so a listener *)
(* that changes the list changes what the loop visits next.  A listener's  *)
(* exception is caught and logged.  The result is the list of listener     *)
(* invocations, whether an exception left emitEvent, and the list after.   *)
(***************************************************************************)
\* What a call of listener l does to the listener list: "once" removes
\* itself, "remover" removes the recorder, "adder" registers the listener
\* "late" while the list is short; the others leave the list alone.
ListenerActs(l, listeners) ==
    LET without(x) == IF \E i \in 1..Len(listeners) : listeners[i] = x
                      THEN LET at == CHOOSE i \in 1..Len(listeners) :
                                        /\ listeners[i] = x
                                        /\ \A j \in 1..(i - 1) : listeners[j] # x
                           IN  SubSeq(listeners, 1, at - 1)
                                 \o SubSeq(listeners, at + 1, Len(listeners))
                      ELSE listeners
    IN  CASE l = "once" -> without("once")
          [] l = "remover" -> without("recorder")
          [] l = "adder" -> IF Len(listeners) <= MaxListeners
                            THEN Append(listeners, "late")
                            ELSE listeners
          [] OTHER -> listeners

\* The loop from position i on; `called` are the listeners called so far.
RECURSIVE Iterate(_, _, _)
Iterate(listeners, i, called) ==
    IF i > Len(listeners)
    THEN [ listeners |-> listeners, called |-> called ]
    ELSE Iterate(ListenerActs(listeners[i], listeners), i + 1,
                 Append(called, listeners[i]))

\* emitEvent without its try/catch: the first exception leaves the loop.
emitEvent_NoCatch(listeners, event) ==
    LET throwers == { i \in 1..Len(listeners) : ListenerThrows(listeners[i]) }
        last == IF throwers = {} THEN Len(listeners)
                ELSE CHOOSE i \in throwers : \A j \in throwers : i <= j
    IN  [ calls |-> [ i \in 1..last |->
                        [ listener |-> listeners[i], event |-> event,
                          threw |-> ListenerThrows(listeners[i]) ] ],
          raised |-> throwers # {},
          listeners |-> listeners ]

emitEvent(listeners, event) ==
    LET run == Iterate(listeners, 1, <<>>)
    IN  [ calls |-> [ i \in 1..Len(run.called) |->
                        [ listener |-> run.called[i], event |-> event,
                          threw |-> ListenerThrows(run.called[i]) ] ],
          raised |-> FALSE,
          listeners |-> run.listeners ]

\* An event that always names a previous key: the key itself when there is
\* no other.
Event_Linked(keyId, type, algorithm, previousKeyId) ==
    [ keyId |-> keyId, type |-> type, timestamp |-> now,
      algorithm |-> algorithm,
      previousKeyId |-> IF previousKeyId = NoKey THEN keyId ELSE previousKeyId ]

Event(keyId, type, algorithm, previousKeyId) ==
    [ keyId |-> keyId, type |-> type, timestamp |-> now,
      algorithm |-> algorithm, previousKeyId |-> previousKeyId ]

\* The history of rotated events: not kept, and empty.
NoRotations == [ tracked |-> FALSE, events |-> <<>> ]

NoRotationsYet == [ tracked |-> TRUE, events |-> <<>> ]

Quiet == emitted' = <<>> /\ delivered' = <<>> /\ UNCHANGED rotations

\* No emitEvent call in the step of an operation that can make one.
Silent == Quiet /\ UNCHANGED eventListeners

Emit(event) ==
    /\ emitted' = <<event>>
    /\ delivered' = emitEvent(eventListeners, event).calls
    /\ eventListeners' = emitEvent(eventListeners, event).listeners
    /\ rotations' = IF rotations.tracked /\ event.type = "rotated"
                    THEN [ rotations EXCEPT !.events = Append(@, event) ]
                    ELSE rotations

Raised(event) == emitEvent(eventListeners, event).raised

(***************************************************************************)
(* Init: the service after construction.                                   *)
(***************************************************************************)
KeyManagerInit ==
    /\ now = 0
    /\ keys = <<>>
    /\ keyOrder = <<>>
    /\ keyStore = <<>>
    /\ nextPair = 0
    /\ eventListeners = <<>>
    /\ task = [c \in Callers |-> IdleTask]
    /\ ret = NoRet
    /\ emitted = <<>>
    /\ delivered = <<>>
    /\ rotations = NoRotations


(***************************************************************************)
(* How a call ends.  Complete resolves the caller's promise, Fail rejects  *)
(* it; inside performScheduledRotations a rejected rotateKey is caught and *)
(* collected and the loop goes on.                                         *)
(***************************************************************************)
Outcome(c, op) ==
    [ NoRet EXCEPT !.caller = c, !.op = op, !.arg = task[c].target,
                   !.algorithm = task[c].algorithm ]

Complete(c, value) ==
    /\ ret' = [ Outcome(c, task[c].top) EXCEPT !.value = value ]
    /\ task' = [task EXCEPT ![c] = IdleTask]

\* A rejection that nothing catches.
Fail_NoCatch(c, error) ==
    /\ ret' = [ Outcome(c, task[c].top) EXCEPT !.ok = FALSE, !.error = error ]
    /\ task' = [task EXCEPT ![c] = IdleTask]

Fail(c, error) ==
    IF task[c].top = "performScheduledRotations"
    THEN /\ ret' = NoRet
         /\ task' = [task EXCEPT ![c] =
                [ @ EXCEPT !.pc = "sweepNext",
                           !.failed = Append(@, [keyId |-> task[c].target, error |-> error]),
                           !.attempts = Append(@, [keyId |-> task[c].target, ok |-> FALSE]),
                           !.qpos = @ + 1 ]]
    ELSE /\ ret' = [ Outcome(c, task[c].top) EXCEPT !.ok = FALSE, !.error = error ]
         /\ task' = [task EXCEPT ![c] = IdleTask]

(***************************************************************************)
(* generateKey(algorithm), up to its await of createKeyPair.               *)
(***************************************************************************)
\* A generateKey that puts a placeholder for the private key in the store
\* before it awaits createKeyPair.
GenerateKey_Reserves(c, algorithm, r, cap) ==
    /\ task[c].pc = "idle"
    /\ nextPair < cap
    /\ task' = [task EXCEPT ![c] =
            [ IdleTask EXCEPT !.pc = "createKeyPair", !.top = "generateKey",
                              !.algorithm = algorithm, !.keyId = generateKeyId(r) ]]
    /\ keyStore' = (PrivSlot(generateKeyId(r)) :> [pair |-> 0, half |-> "priv"]) @@ keyStore
    /\ ret' = NoRet
    /\ Quiet
    /\ UNCHANGED <<now, keys, keyOrder, nextPair, eventListeners, factoryVars, providerVars, utilVars>>

GenerateKey(c, algorithm, r, cap) ==
    /\ task[c].pc = "idle"
    /\ nextPair < cap
    /\ task' = [task EXCEPT ![c] =
            [ IdleTask EXCEPT !.pc = "createKeyPair", !.top = "generateKey",
                              !.algorithm = algorithm, !.keyId = generateKeyId(r) ]]
    /\ ret' = NoRet
    /\ Quiet
    /\ UNCHANGED <<now, keys, keyOrder, keyStore, nextPair, eventListeners, factoryVars, providerVars, utilVars>>

(***************************************************************************)
(* createKeyPair: only RSA-OAEP is implemented, and the primitive          *)
(* (crypto.subtle.generateKey) may reject.                                 *)
(***************************************************************************)
createKeyPair(algorithm, primitiveOk) ==
    IF algorithm = "RSA-OAEP"
    THEN IF primitiveOk THEN "ok" ELSE "OperationError"
    ELSE "not implemented yet"

\* The metadata generateKey builds.
NewMetadata(keyId, algorithm, created) ==
    [ id |-> keyId,
      algorithm |-> algorithm,
      created |-> created,
      lastUsed |-> NoDate,
      rotatedAt |-> NoDate,
      expiresAt |-> IF algorithm \in DOMAIN rotationPolicies
                    THEN created + rotationPolicies[algorithm].maxAge
                    ELSE NoDate,
      isQuantumSafe |-> isQuantumSafeAlgorithm(algorithm),
      securityLevel |-> getAlgorithmSecurityLevel(algorithm),
      usage |-> getKeyUsage(algorithm),
      status |-> "active" ]

\* The rest of generateKey once createKeyPair has settled; inside rotateKey
\* the new identifier goes back to rotateKey, which resumes in RotateResume.
CreateKeyPairSettles(c, primitiveOk) ==
    LET algorithm == task[c].algorithm
        keyId == task[c].keyId
        result == createKeyPair(algorithm, primitiveOk)
        created == Event(keyId, "created", algorithm, NoKey)
    IN  /\ task[c].pc = "createKeyPair"
        /\ IF result = "ok"
           THEN /\ keys' = (keyId :> NewMetadata(keyId, algorithm, now)) @@ keys
                /\ keyOrder' = IF keyId \in DOMAIN keys THEN keyOrder
                               ELSE Append(keyOrder, keyId)
                /\ keyStore' = (PrivSlot(keyId) :> [pair |-> nextPair + 1, half |-> "priv"])
                               @@ (PubSlot(keyId) :> [pair |-> nextPair + 1, half |-> "pub"])
                               @@ keyStore
                /\ nextPair' = nextPair + 1
                /\ Emit(created)
                /\ IF Raised(created)
                   THEN Fail(c, "listener")
                   ELSE IF task[c].top = "generateKey"
                   THEN Complete(c, keyId)
                   ELSE /\ task' = [task EXCEPT ![c].pc = "rotateResume"]
                        /\ ret' = NoRet
           ELSE /\ Fail(c, result)
                /\ Silent
                /\ UNCHANGED <<keys, keyOrder, keyStore, nextPair>>
        /\ UNCHANGED <<now, factoryVars, providerVars, utilVars>>

(***************************************************************************)
(* rotateKey(keyId), up to the await inside the generateKey it calls.      *)
(***************************************************************************)
MarkRotating(keyId) ==
    [keys EXCEPT ![keyId].status = "rotating", ![keyId].rotatedAt = now]

RotateKey(c, keyId, r, cap) ==
    /\ task[c].pc = "idle"
    /\ IF keyId \notin DOMAIN keys
       THEN /\ ret' = [ NoRet EXCEPT !.caller = c, !.op = "rotateKey", !.arg = keyId,
                                     !.ok = FALSE, !.error = "not found" ]
            /\ UNCHANGED <<keys, task>>
       ELSE /\ nextPair < cap
            /\ keys' = MarkRotating(keyId)
            /\ task' = [task EXCEPT ![c] =
                    [ IdleTask EXCEPT !.pc = "createKeyPair", !.top = "rotateKey",
                                      !.target = keyId,
                                      !.algorithm = keys[keyId].algorithm,
                                      !.keyId = generateKeyId(r) ]]
            /\ ret' = NoRet
    /\ Quiet
    /\ UNCHANGED <<now, keyOrder, keyStore, nextPair, eventListeners, factoryVars, providerVars, utilVars>>

\* rotateKey after generateKey returned the new identifier.
RotateResume(c) ==
    LET rotated == Event(task[c].keyId, "rotated", task[c].algorithm, task[c].target)
    IN  /\ task[c].pc = "rotateResume"
        /\ Emit(rotated)
        /\ IF Raised(rotated)
           THEN Fail(c, "listener")
           ELSE IF task[c].top = "rotateKey"
           THEN Complete(c, task[c].keyId)
           ELSE /\ ret' = NoRet
                /\ task' = [task EXCEPT ![c] =
                       [ @ EXCEPT !.pc = "sweepNext",
                                  !.rotated = Append(@, task[c].keyId),
                                  !.attempts = Append(@, [keyId |-> task[c].target, ok |-> TRUE]),
                                  !.qpos = @ + 1 ]]
        /\ UNCHANGED <<now, keys, keyOrder, keyStore, nextPair, factoryVars, providerVars, utilVars>>

(***************************************************************************)
(* revokeKey(keyId): no await, one step.                                   *)
(***************************************************************************)
\* revokeKey deleting the private half only.
RevokedStore_KeepsPublic(keyId) ==
    [ slot \in DOMAIN keyStore \ {PrivSlot(keyId)} |-> keyStore[slot] ]

RevokedStore(keyId) ==
    [ slot \in DOMAIN keyStore \ {PrivSlot(keyId), PubSlot(keyId)} |-> keyStore[slot] ]

\* A revokeKey that announces the revocation before it looks the key up.
RevokeKey_EmitsFirst(c, keyId) ==
    LET revoked == Event(keyId, "revoked", keys[keyId].algorithm, NoKey)
        outcome == [ NoRet EXCEPT !.caller = c, !.op = "revokeKey", !.arg = keyId ]
    IN  /\ task[c].pc = "idle"
        /\ IF keyId \notin DOMAIN keys
           THEN /\ ret' = [ outcome EXCEPT !.ok = FALSE, !.error = "not found" ]
                /\ Emit(Event(keyId, "revoked", None, NoKey))
                /\ UNCHANGED <<keys, keyStore>>
           ELSE /\ keys' = [keys EXCEPT ![keyId].status = "revoked"]
                /\ keyStore' = RevokedStore(keyId)
                /\ Emit(revoked)
                /\ ret' = IF Raised(revoked)
                          THEN [ outcome EXCEPT !.ok = FALSE, !.error = "listener" ]
                          ELSE outcome
        /\ UNCHANGED <<now, keyOrder, nextPair, task, factoryVars, providerVars, utilVars>>

RevokeKey(c, keyId) ==
    LET revoked == Event(keyId, "revoked", keys[keyId].algorithm, NoKey)
        outcome == [ NoRet EXCEPT !.caller = c, !.op = "revokeKey", !.arg = keyId ]
    IN  /\ task[c].pc = "idle"
        /\ IF keyId \notin DOMAIN keys
           THEN /\ ret' = [ outcome EXCEPT !.ok = FALSE, !.error = "not found" ]
                /\ Silent
                /\ UNCHANGED <<keys, keyStore>>
           ELSE /\ keys' = [keys EXCEPT ![keyId].status = "revoked"]
                /\ keyStore' = RevokedStore(keyId)
                /\ Emit(revoked)
                /\ ret' = IF Raised(revoked)
                          THEN [ outcome EXCEPT !.ok = FALSE, !.error = "listener" ]
                          ELSE outcome
        /\ UNCHANGED <<now, keyOrder, nextPair, task, factoryVars, providerVars, utilVars>>

(***************************************************************************)
(* recordKeyUsage(keyId): no await, one step.                              *)
(***************************************************************************)
\* recordKeyUsage throwing for an identifier that names no key.
RecordKeyUsage_Strict(c, keyId) ==
    LET used == Event(keyId, "used", keys[keyId].algorithm, NoKey)
        outcome == [ NoRet EXCEPT !.caller = c, !.op = "recordKeyUsage", !.arg = keyId ]
    IN  /\ task[c].pc = "idle"
        /\ IF keyId \in DOMAIN keys
           THEN /\ keys' = [keys EXCEPT ![keyId].lastUsed = now]
                /\ Emit(used)
                /\ ret' = outcome
           ELSE /\ ret' = [ outcome EXCEPT !.ok = FALSE, !.error = "not found" ]
                /\ Silent
                /\ UNCHANGED keys
        /\ UNCHANGED <<now, keyOrder, keyStore, nextPair, task, factoryVars, providerVars, utilVars>>

RecordKeyUsage(c, keyId) ==
    LET used == Event(keyId, "used", keys[keyId].algorithm, NoKey)
        outcome == [ NoRet EXCEPT !.caller = c, !.op = "recordKeyUsage", !.arg = keyId ]
    IN  /\ task[c].pc = "idle"
        /\ IF keyId \in DOMAIN keys
           THEN /\ keys' = [keys EXCEPT ![keyId].lastUsed = now]
                /\ Emit(used)
                /\ ret' = IF Raised(used)
                          THEN [ outcome EXCEPT !.ok = FALSE, !.error = "listener" ]
                          ELSE outcome
           ELSE /\ ret' = outcome
                /\ Silent
                /\ UNCHANGED keys
        /\ UNCHANGED <<now, keyOrder, keyStore, nextPair, task, factoryVars, providerVars, utilVars>>


(***************************************************************************)
(* checkKeyRotationNeeds: the loop over this.keys.entries().  A key that   *)
(* is not active, or whose algorithm has no policy, is passed over; for    *)
(* the others the age test is made, then the threat level is awaited.      *)
(***************************************************************************)
IsCandidate(metadata) ==
    /\ metadata.status = "active"
    /\ metadata.algorithm \in DOMAIN rotationPolicies

\* The position of the next entry after `pos` that reaches the await; 0 at
\* the end of the map.
NextCandidate(pos) ==
    LET rest == { i \in (pos + 1)..Len(keyOrder) : IsCandidate(keys[keyOrder[i]]) }
    IN  IF rest = {} THEN 0 ELSE CHOOSE i \in rest : \A j \in rest : i <= j

ageExpired(metadata, scanNow) ==
    metadata.expiresAt # NoDate /\ scanNow > metadata.expiresAt

\* The threshold test with > for >=.
threatExceeded_Strict(metadata, policy, currentThreatLevel) ==
    currentThreatLevel > policy.quantumThreatThreshold /\ ~metadata.isQuantumSafe

threatExceeded(metadata, policy, currentThreatLevel) ==
    currentThreatLevel >= policy.quantumThreatThreshold /\ ~metadata.isQuantumSafe

\* What one checkKeyRotationNeeds scan returns when nothing runs between its
\* steps and every read of the threat level gives `level`.
checkKeyRotationNeeds(scanNow, level) ==
    SelectSeq(keyOrder,
              LAMBDA keyId :
                  /\ IsCandidate(keys[keyId])
                  /\ \/ ageExpired(keys[keyId], scanNow)
                     \/ threatExceeded(keys[keyId], rotationPolicies[keys[keyId].algorithm],
                                       level))

\* The scan, with locals `local`, moves on to position i, or returns.
ScanTo(c, local, i) ==
    IF i # 0
    THEN /\ task' = [task EXCEPT ![c] =
                [ local EXCEPT !.pc = "threatLevel", !.scanPos = i,
                               !.ageFlag = ageExpired(keys[keyOrder[i]], local.scanNow) ]]
         /\ ret' = NoRet
    ELSE IF local.top = "checkKeyRotationNeeds"
    THEN /\ task' = [task EXCEPT ![c] = IdleTask]
         /\ ret' = [ NoRet EXCEPT !.caller = c, !.op = "checkKeyRotationNeeds",
                                  !.scanNow = local.scanNow,
                                  !.flagged = local.flagged, !.samples = local.samples ]
    ELSE /\ task' = [task EXCEPT ![c] = [ local EXCEPT !.pc = "sweepNext", !.qpos = 1 ]]
         /\ ret' = NoRet

StartScan(c, top) ==
    /\ task[c].pc = "idle"
    /\ ScanTo(c, [ IdleTask EXCEPT !.top = top, !.scanNow = now ], NextCandidate(0))
    /\ Quiet
    /\ UNCHANGED <<now, keys, keyOrder, keyStore, nextPair, eventListeners, factoryVars, providerVars, utilVars>>

CheckKeyRotationNeeds(c) == StartScan(c, "checkKeyRotationNeeds")

\* getCurrentQuantumThreatLevel settles for the key at scanPos.
ThreatLevelSettles(c, level) ==
    LET keyId == keyOrder[task[c].scanPos]
        metadata == keys[keyId]
        policy == rotationPolicies[metadata.algorithm]
        needsRotation == task[c].ageFlag \/ threatExceeded(metadata, policy, level)
        local == [ task[c] EXCEPT
                     !.flagged = IF needsRotation THEN Append(@, keyId) ELSE @,
                     !.samples = Append(@, [keyId |-> keyId, level |-> level]) ]
    IN  /\ task[c].pc = "threatLevel"
        /\ ScanTo(c, local, NextCandidate(task[c].scanPos))
        /\ Quiet
        /\ UNCHANGED <<now, keys, keyOrder, keyStore, nextPair, eventListeners, factoryVars, providerVars, utilVars>>

(***************************************************************************)
(* performScheduledRotations: the scan, then rotateKey for each flagged    *)
(* key in turn; a rejected rotateKey is collected in `failed` (see Fail).  *)
(***************************************************************************)
PerformScheduledRotations(c) == StartScan(c, "performScheduledRotations")

SweepNext(c, r, cap) ==
    LET keyId == task[c].flagged[task[c].qpos]
    IN  /\ task[c].pc = "sweepNext"
        /\ IF task[c].qpos > Len(task[c].flagged)
           THEN /\ ret' = [ NoRet EXCEPT !.caller = c, !.op = "performScheduledRotations",
                                         !.rotated = task[c].rotated,
                                         !.failed = task[c].failed,
                                         !.scanNow = task[c].scanNow,
                                         !.flagged = task[c].flagged,
                                         !.samples = task[c].samples,
                                         !.attempts = task[c].attempts ]
                /\ task' = [task EXCEPT ![c] = IdleTask]
                /\ UNCHANGED keys
           ELSE IF keyId \notin DOMAIN keys
           THEN /\ Fail(c, "not found")
                /\ UNCHANGED keys
           ELSE /\ nextPair < cap
                /\ keys' = MarkRotating(keyId)
                /\ task' = [task EXCEPT ![c] =
                       [ @ EXCEPT !.pc = "createKeyPair", !.target = keyId,
                                  !.algorithm = keys[keyId].algorithm,
                                  !.keyId = generateKeyId(r) ]]
                /\ ret' = NoRet
        /\ Quiet
        /\ UNCHANGED <<now, keyOrder, keyStore, nextPair, eventListeners, factoryVars, providerVars, utilVars>>

(***************************************************************************)
(* addEventListener / removeEventListener.                                 *)
(***************************************************************************)
indexOf(listeners, l) ==
    LET at == { i \in 1..Len(listeners) : listeners[i] = l }
    IN  IF at = {} THEN 0 ELSE CHOOSE i \in at : \A j \in at : i <= j

splice(listeners, index) ==
    SubSeq(listeners, 1, index - 1) \o SubSeq(listeners, index + 1, Len(listeners))

AddEventListener(l) ==
    /\ Len(eventListeners) < MaxListeners
    /\ eventListeners' = Append(eventListeners, l)
    /\ ret' = NoRet
    /\ Quiet
    /\ UNCHANGED <<now, keys, keyOrder, keyStore, nextPair, task, factoryVars, providerVars, utilVars>>

RemoveEventListener(l) ==
    /\ eventListeners' = IF indexOf(eventListeners, l) > 0
                         THEN splice(eventListeners, indexOf(eventListeners, l))
                         ELSE eventListeners
    /\ ret' = NoRet
    /\ Quiet
    /\ UNCHANGED <<now, keys, keyOrder, keyStore, nextPair, task, factoryVars, providerVars, utilVars>>

(***************************************************************************)
(* The clock moves on.                                                     *)
(***************************************************************************)
Tick ==
    /\ \E t \in Instants : t > now /\ now' = t
    /\ ret' = NoRet
    /\ Quiet
    /\ UNCHANGED <<keys, keyOrder, keyStore, nextPair, eventListeners, task, factoryVars, providerVars, utilVars>>

(***************************************************************************)
(* CryptoProviderFactory.                                                  *)
(***************************************************************************)
getDefaultConfig ==
    [ preferredAlgorithm |-> "Hybrid-RSA-ML-KEM",
      fallbackAlgorithms |-> << "RSA-OAEP", "ML-KEM-768" >>,
      enableHybridMode |-> TRUE,
      quantumThresholdScore |-> 75 ]

\* The module instantiateProvider imports for an algorithm; None in the
\* default branch of its switch.
ProviderModule(algorithm) ==
    CASE algorithm = "RSA-OAEP" -> "classical/rsa-provider"
      [] algorithm \in { "ML-KEM-512", "ML-KEM-768", "ML-KEM-1024" } -> "pqc/ml-kem-provider"
      [] algorithm = "CRYSTALS-Dilithium" -> "pqc/dilithium-provider"
      [] algorithm \in { "Hybrid-RSA-ML-KEM", "Hybrid-ECDH-ML-KEM" } -> "hybrid/hybrid-provider"
      [] OTHER -> None

Modules ==
    { "classical/rsa-provider", "pqc/ml-kem-provider", "hybrid/hybrid-provider" }

\* The `algorithm` field of the provider each module constructs.
ProviderAlgorithm(algorithm) ==
    CASE ProviderModule(algorithm) = "classical/rsa-provider" -> "RSA-OAEP"
      [] ProviderModule(algorithm) = "pqc/ml-kem-provider" -> algorithm
      [] ProviderModule(algorithm) = "pqc/dilithium-provider" -> "CRYSTALS-Dilithium"
      [] ProviderModule(algorithm) = "hybrid/hybrid-provider" -> "Hybrid-RSA-ML-KEM"

\* isSupported() of the provider each module constructs, in a browser with
\* Web Crypto.
ProviderIsSupported(algorithm) ==
    ProviderModule(algorithm) # "pqc/dilithium-provider"

\* instantiateProvider(algorithm): the provider, or its rejection.
instantiateProvider(algorithm, began) ==
    IF ProviderModule(algorithm) = None
    THEN [ ok |-> FALSE, error |-> "ALGORITHM_NOT_SUPPORTED" ]
    ELSE IF ProviderModule(algorithm) \in unavailable
    THEN [ ok |-> FALSE, error |-> "import" ]
    ELSE [ ok |-> TRUE,
           provider |-> [ serial |-> nextProvider + 1,
                          requested |-> algorithm,
                          algorithm |-> ProviderAlgorithm(algorithm),
                          isSupported |-> ProviderIsSupported(algorithm),
                          began |-> began ] ]

NoProvider ==
    [ serial |-> 0, requested |-> None, algorithm |-> None,
      isSupported |-> FALSE, began |-> 0 ]

IdleFactoryTask ==
    [ pc |-> "idle", requested |-> None, selected |-> None, current |-> None,
      fallbacks |-> <<>>, position |-> 0, began |-> 0, attempts |-> <<>> ]

NoFactoryRet ==
    [ caller |-> None, op |-> None, requested |-> None, selected |-> None,
      ok |-> TRUE, provider |-> NoProvider, error |-> None, cached |-> FALSE,
      fallbacks |-> <<>>, attempts |-> <<>>, value |-> FALSE ]

FactoryConstructed ==
    /\ config = getDefaultConfig
    /\ cache = <<>>
    /\ configVersion = 0
    /\ nextProvider = 0
    /\ ftask = [c \in Callers |-> IdleFactoryTask]
    /\ fret = NoFactoryRet

\* The history of returned providers: not kept, kept and empty, extended by
\* a returned provider, and emptied when the cache is cleared.
NoHistory == [ tracked |-> FALSE, by |-> <<>> ]

EmptyHistory == [ tracked |-> TRUE, by |-> <<>> ]

Remember(algorithm, provider) ==
    IF served.tracked THEN [ served EXCEPT !.by = (algorithm :> provider) @@ @ ]
    ELSE served

Forget == IF served.tracked THEN EmptyHistory ELSE served

\* config?.fallbackAlgorithms || ['RSA-OAEP']
fallbackAlgorithms ==
    IF config.fallbackAlgorithms = None THEN << "RSA-OAEP" >> ELSE config.fallbackAlgorithms

\* algorithm || config?.preferredAlgorithm || 'RSA-OAEP'
selectedAlgorithm(algorithm) ==
    IF algorithm # None THEN algorithm
    ELSE IF config.preferredAlgorithm # None THEN config.preferredAlgorithm
    ELSE "RSA-OAEP"

\* createProvider(algorithm?), up to its await of instantiateProvider.
CreateProvider(c, algorithm) ==
    LET selected == selectedAlgorithm(algorithm)
    IN  /\ ftask[c].pc = "idle"
        /\ IF selected \in DOMAIN cache
           THEN /\ fret' = [ NoFactoryRet EXCEPT
                               !.caller = c, !.op = "createProvider",
                               !.requested = algorithm, !.selected = selected,
                               !.provider = cache[selected], !.cached = TRUE ]
                /\ served' = Remember(selected, cache[selected])
                /\ UNCHANGED ftask
           ELSE /\ nextProvider < MaxProviders
                /\ ftask' = [ftask EXCEPT ![c] =
                       [ IdleFactoryTask EXCEPT
                           !.pc = "instantiate", !.requested = algorithm,
                           !.selected = selected, !.current = selected,
                           !.began = configVersion ]]
                /\ fret' = NoFactoryRet
                /\ UNCHANGED served
        /\ UNCHANGED <<config, cache, configVersion, nextProvider, unavailable, kmVars, providerVars, utilVars>>

\* A fallback loop that walks the list from its end.
NextFallback_Backwards(c, attempts) ==
    LET fallbacks == IF ftask[c].position = 0 THEN fallbackAlgorithms
                     ELSE ftask[c].fallbacks
        position == ftask[c].position + 1
    IN  IF position <= Len(fallbacks)
        THEN /\ ftask' = [ftask EXCEPT ![c] =
                    [ @ EXCEPT !.fallbacks = fallbacks, !.position = position,
                               !.current = fallbacks[Len(fallbacks) + 1 - position],
                               !.began = configVersion, !.attempts = attempts ]]
             /\ fret' = NoFactoryRet
        ELSE /\ ftask' = [ftask EXCEPT ![c] = IdleFactoryTask]
             /\ fret' = [ NoFactoryRet EXCEPT
                            !.caller = c, !.op = "createProvider",
                            !.requested = ftask[c].requested,
                            !.selected = ftask[c].selected,
                            !.ok = FALSE, !.error = "ALGORITHM_NOT_SUPPORTED",
                            !.fallbacks = fallbacks, !.attempts = attempts ]

\* A fallback loop that gives up after its first fallback.
NextFallback_GivesUp(c, attempts) ==
    LET fallbacks == IF ftask[c].position = 0 THEN fallbackAlgorithms
                     ELSE ftask[c].fallbacks
        position == ftask[c].position + 1
    IN  IF position <= Len(fallbacks) /\ position <= 1
        THEN /\ ftask' = [ftask EXCEPT ![c] =
                    [ @ EXCEPT !.fallbacks = fallbacks, !.position = position,
                               !.current = fallbacks[position],
                               !.began = configVersion, !.attempts = attempts ]]
             /\ fret' = NoFactoryRet
        ELSE /\ ftask' = [ftask EXCEPT ![c] = IdleFactoryTask]
             /\ fret' = [ NoFactoryRet EXCEPT
                            !.caller = c, !.op = "createProvider",
                            !.requested = ftask[c].requested,
                            !.selected = ftask[c].selected,
                            !.ok = FALSE, !.error = "ALGORITHM_NOT_SUPPORTED",
                            !.fallbacks = fallbacks, !.attempts = attempts ]

\* The catch blocks of createProvider: after the selected algorithm the
\* fallback list is read and walked; after the last fallback the call fails.
NextFallback(c, attempts) ==
    LET fallbacks == IF ftask[c].position = 0 THEN fallbackAlgorithms
                     ELSE ftask[c].fallbacks
        position == ftask[c].position + 1
    IN  IF position <= Len(fallbacks)
        THEN /\ ftask' = [ftask EXCEPT ![c] =
                    [ @ EXCEPT !.fallbacks = fallbacks, !.position = position,
                               !.current = fallbacks[position],
                               !.began = configVersion, !.attempts = attempts ]]
             /\ fret' = NoFactoryRet
        ELSE /\ ftask' = [ftask EXCEPT ![c] = IdleFactoryTask]
             /\ fret' = [ NoFactoryRet EXCEPT
                            !.caller = c, !.op = "createProvider",
                            !.requested = ftask[c].requested,
                            !.selected = ftask[c].selected,
                            !.ok = FALSE, !.error = "ALGORITHM_NOT_SUPPORTED",
                            !.fallbacks = fallbacks, !.attempts = attempts ]

\* instantiateProvider settles: the provider is cached under the algorithm
\* it was asked for and returned, or the next fallback is tried.
InstantiateSettles(c) ==
    LET made == instantiateProvider(ftask[c].current, ftask[c].began)
        attempts == Append(ftask[c].attempts,
                           [ algorithm |-> ftask[c].current, ok |-> made.ok ])
    IN  /\ ftask[c].pc = "instantiate"
        /\ IF made.ok
           THEN /\ cache' = (ftask[c].current :> made.provider) @@ cache
                /\ nextProvider' = nextProvider + 1
                /\ ftask' = [ftask EXCEPT ![c] = IdleFactoryTask]
                /\ fret' = [ NoFactoryRet EXCEPT
                               !.caller = c, !.op = "createProvider",
                               !.requested = ftask[c].requested,
                               !.selected = ftask[c].selected,
                               !.provider = made.provider,
                               !.fallbacks = ftask[c].fallbacks,
                               !.attempts = attempts ]
                /\ served' = Remember(ftask[c].selected, made.provider)
           ELSE /\ NextFallback(c, attempts)
                /\ UNCHANGED <<cache, nextProvider, served>>
        /\ UNCHANGED <<config, configVersion, unavailable, kmVars, providerVars, utilVars>>

\* updateConfig(newConfig): { ...this.config, ...newConfig }, then cache.clear().
UpdateConfig(newConfig) ==
    /\ configVersion < MaxUpdates
    /\ config' = [ f \in DOMAIN config |->
                     IF f \in DOMAIN newConfig THEN newConfig[f] ELSE config[f] ]
    /\ cache' = <<>>
    /\ served' = Forget
    /\ configVersion' = configVersion + 1
    /\ fret' = NoFactoryRet
    /\ UNCHANGED <<nextProvider, unavailable, ftask, kmVars, providerVars, utilVars>>

\* isQuantumSafe(algorithm): quantumSafeAlgorithms.includes(algorithm)
isQuantumSafe(algorithm) ==
    algorithm \in { "ML-KEM-512", "ML-KEM-768", "ML-KEM-1024", "CRYSTALS-Dilithium",
                    "SPHINCS+", "Hybrid-RSA-ML-KEM", "Hybrid-ECDH-ML-KEM" }

\* safe = factory.isQuantumSafe(algorithm)
IsQuantumSafe(algorithm) ==
    /\ fret' = [ NoFactoryRet EXCEPT !.op = "isQuantumSafe", !.requested = algorithm,
                                     !.value = isQuantumSafe(algorithm) ]
    /\ UNCHANGED <<config, cache, configVersion, nextProvider, unavailable, ftask,
                   served, kmVars, providerVars, utilVars>>

ClearCache ==
    /\ cache' = <<>>
    /\ served' = Forget
    /\ fret' = NoFactoryRet
    /\ UNCHANGED <<config, configVersion, nextProvider, unavailable, ftask, kmVars, providerVars, utilVars>>

(***************************************************************************)
(* The crypto providers: RSAProvider, MLKEMProvider (three variants),      *)
(* HybridCryptoProvider and DilithiumProvider, each named by its           *)
(* `algorithm` field.  Their methods share no state, so a call is one      *)
(* step.                                                                   *)
(*                                                                         *)
(* A plaintext is a run of `filler` letters 'a' followed by at most        *)
(* MaxUnits further UTF-16 code units.  A byte buffer holding UTF-8 is     *)
(* written by the scalar values it encodes.                                *)
(***************************************************************************)
Providers ==
    { "RSA-OAEP", "ML-KEM-512", "ML-KEM-768", "ML-KEM-1024",
      "Hybrid-RSA-ML-KEM", "CRYSTALS-Dilithium" }

MLKEMVariants == { "ML-KEM-512", "ML-KEM-768", "ML-KEM-1024" }

\* Code units a plaintext is drawn from; U+FFFD appears only in decoded text.
CodeUnits == { "e-acute", "lone-surrogate" }

\* Bytes of one scalar value in UTF-8.
Utf8Length(unit) ==
    CASE unit = "e-acute" -> 2
      [] unit \in { "lone-surrogate", "U+FFFD" } -> 3

Fillers == { 0, 189, 190, 191 }

Texts ==
    [ units : UNION { [1..n -> CodeUnits] : n \in 0..MaxUnits }, filler : Fillers ]

\* new TextEncoder().encode(text): a lone surrogate is encoded as U+FFFD.
TextEncoder(text) ==
    [ scalars |-> [ i \in DOMAIN text.units |->
                      IF text.units[i] = "lone-surrogate" THEN "U+FFFD"
                      ELSE text.units[i] ],
      filler |-> text.filler ]

RECURSIVE SumUtf8(_, _)
SumUtf8(scalars, i) ==
    IF i > Len(scalars) THEN 0 ELSE Utf8Length(scalars[i]) + SumUtf8(scalars, i + 1)

\* dataBuffer.length
ByteLength(buffer) == buffer.filler + SumUtf8(buffer.scalars, 1)

\* new TextDecoder().decode(buffer)
TextDecoder(buffer) == [ units |-> buffer.scalars, filler |-> buffer.filler ]

\* arrayBufferToBase64 / btoa and base64ToArrayBuffer / atob.
arrayBufferToBase64(buffer) == [ base64 |-> buffer ]
base64ToArrayBuffer(base64) == base64.base64

\* The capacity RSAProvider.encrypt enforces.
RsaCapacity == 190

PublicKey(n) == [ pair |-> n, half |-> "public" ]
PrivateKey(n) == [ pair |-> n, half |-> "private" ]

\* What a key is: an RSA CryptoKey, an AES CryptoKey, or raw bytes.
KeyKind(key) == pkeys[key.pair].kind

NoValue == [ none |-> TRUE ]

Resolved(value, primitive) ==
    [ ok |-> TRUE, value |-> value, code |-> None, cryptoError |-> FALSE,
      algorithm |-> None, primitive |-> primitive ]

\* throw new CryptoError(message, code, algorithm)
CryptoError(code, algorithm, primitive) ==
    [ ok |-> FALSE, value |-> NoValue, code |-> code, cryptoError |-> TRUE,
      algorithm |-> algorithm, primitive |-> primitive ]

\* Any other exception: a DOMException of the primitive, a TypeError, an Error.
Thrown(name, primitive) ==
    [ ok |-> FALSE, value |-> NoValue, code |-> name, cryptoError |-> FALSE,
      algorithm |-> None, primitive |-> primitive ]

\* keyParams: a 2048-bit modulus and SHA-256.
ModulusBytes == 256
HashBytes == 32

\* The longest message crypto.subtle.encrypt takes under RSA-OAEP with
\* these parameters.
OaepCapacity == ModulusBytes - 2 * HashBytes - 2

\* RSAProvider.encrypt without its length check: the primitive decides.
RSAProvider_encrypt_NoCap(data, publicKey) ==
    LET dataBuffer == TextEncoder(data)
    IN  IF KeyKind(publicKey) = "Uint8Array"
        THEN CryptoError("KEY_GENERATION_FAILED", "RSA-OAEP", FALSE)
        ELSE IF KeyKind(publicKey) # "RSA-OAEP" \/ ByteLength(dataBuffer) > OaepCapacity
        THEN CryptoError("ENCRYPTION_FAILED", "RSA-OAEP", TRUE)
        ELSE Resolved(arrayBufferToBase64(
                          [ cipher |-> "RSA-OAEP", key |-> publicKey.pair,
                            plain |-> dataBuffer ]), TRUE)

\* RSAProvider.encrypt
RSAProvider_encrypt(data, publicKey) ==
    LET dataBuffer == TextEncoder(data)
    IN  IF KeyKind(publicKey) = "Uint8Array"
        THEN CryptoError("KEY_GENERATION_FAILED", "RSA-OAEP", FALSE)
        ELSE IF ByteLength(dataBuffer) > RsaCapacity
        THEN CryptoError("ENCRYPTION_FAILED", "RSA-OAEP", FALSE)
        ELSE IF KeyKind(publicKey) # "RSA-OAEP" \/ ByteLength(dataBuffer) > OaepCapacity
        THEN CryptoError("ENCRYPTION_FAILED", "RSA-OAEP", TRUE)
        ELSE Resolved(arrayBufferToBase64(
                          [ cipher |-> "RSA-OAEP", key |-> publicKey.pair,
                            plain |-> dataBuffer ]), TRUE)

\* RSAProvider.decrypt
RSAProvider_decrypt(encryptedData, privateKey) ==
    LET encryptedBuffer == base64ToArrayBuffer(encryptedData)
    IN  IF KeyKind(privateKey) = "Uint8Array"
        THEN CryptoError("DECRYPTION_FAILED", "RSA-OAEP", FALSE)
        ELSE IF \/ KeyKind(privateKey) # "RSA-OAEP"
                \/ encryptedBuffer.cipher # "RSA-OAEP"
                \/ encryptedBuffer.key # privateKey.pair
        THEN CryptoError("DECRYPTION_FAILED", "RSA-OAEP", TRUE)
        ELSE Resolved(TextDecoder(encryptedBuffer.plain), TRUE)

\* The AES key MLKEMProvider.encrypt / decrypt use: the CryptoKey it was
\* given, or a key it generates for this call when given raw bytes.
MLKEMProvider_key(key, fresh) ==
    IF KeyKind(key) = "Uint8Array" THEN [ kind |-> "AES-GCM", secret |-> fresh ]
    ELSE [ kind |-> KeyKind(key), secret |-> key.pair ]

\* MLKEMProvider.encrypt (data a string)
MLKEMProvider_encrypt(data, publicKey, fresh) ==
    LET key == MLKEMProvider_key(publicKey, fresh)
    IN  IF key.kind # "AES-GCM" THEN Thrown("InvalidAccessError", TRUE)
        ELSE Resolved(arrayBufferToBase64(
                          [ cipher |-> "AES-GCM", key |-> key.secret,
                            plain |-> TextEncoder(data) ]), TRUE)

\* MLKEMProvider.decrypt (encryptedData a string)
MLKEMProvider_decrypt(encryptedData, privateKey, fresh) ==
    LET key == MLKEMProvider_key(privateKey, fresh)
        data == base64ToArrayBuffer(encryptedData)
    IN  IF key.kind # "AES-GCM" THEN Thrown("InvalidAccessError", TRUE)
        ELSE IF data.cipher # "AES-GCM" \/ data.key # key.secret
        THEN Thrown("OperationError", TRUE)
        ELSE Resolved(TextDecoder(data.plain), TRUE)

\* HybridCryptoProvider.encrypt / decrypt: the classical provider's result,
\* its failure replaced by new Error('Hybrid ... failed: ' + message).
HybridCryptoProvider_wrap(classical) ==
    IF classical.ok THEN classical ELSE Thrown("Error", classical.primitive)

\* DilithiumProvider.encrypt / decrypt
DilithiumProvider_encrypt ==
    CryptoError("INVALID_OPERATION", "CRYSTALS-Dilithium", FALSE)

\* provider.encrypt(data, publicKey)
encrypt(provider, data, publicKey, fresh) ==
    CASE provider = "RSA-OAEP" -> RSAProvider_encrypt(data, publicKey)
      [] provider \in MLKEMVariants -> MLKEMProvider_encrypt(data, publicKey, fresh)
      [] provider = "Hybrid-RSA-ML-KEM" ->
            HybridCryptoProvider_wrap(RSAProvider_encrypt(data, publicKey))
      [] provider = "CRYSTALS-Dilithium" -> DilithiumProvider_encrypt

\* provider.decrypt(encryptedData, privateKey)
decrypt(provider, encryptedData, privateKey, fresh) ==
    CASE provider = "RSA-OAEP" -> RSAProvider_decrypt(encryptedData, privateKey)
      [] provider \in MLKEMVariants -> MLKEMProvider_decrypt(encryptedData, privateKey, fresh)
      [] provider = "Hybrid-RSA-ML-KEM" ->
            HybridCryptoProvider_wrap(RSAProvider_decrypt(encryptedData, privateKey))
      [] provider = "CRYSTALS-Dilithium" -> DilithiumProvider_encrypt

\* crypto.subtle.digest('SHA-256', data)
sha256(data) == [ digest |-> "SHA-256", of |-> data ]

\* MLKEMProvider.sign: the hash of the data, whatever the key.
MLKEMProvider_sign(data) == Resolved(sha256(data), FALSE)

\* MLKEMProvider.verify: whether the signature is the hash of the data.
MLKEMProvider_verify(data, signature) == Resolved(sha256(data) = signature, FALSE)

\* DilithiumProvider.sign / verify
DilithiumProvider_sign == CryptoError("NOT_IMPLEMENTED", "CRYSTALS-Dilithium", FALSE)

\* A call of a method the provider's class does not define.
NotAFunction == Thrown("TypeError", FALSE)

\* provider.sign(data, privateKey); RSAProvider and HybridCryptoProvider
\* define no sign.
sign(provider, data) ==
    CASE provider \in { "RSA-OAEP", "Hybrid-RSA-ML-KEM" } -> NotAFunction
      [] provider \in MLKEMVariants -> MLKEMProvider_sign(data)
      [] provider = "CRYSTALS-Dilithium" -> DilithiumProvider_sign

\* provider.verify(data, signature, publicKey); RSAProvider and
\* HybridCryptoProvider define no verify.
verify(provider, data, signature) ==
    CASE provider \in { "RSA-OAEP", "Hybrid-RSA-ML-KEM" } -> NotAFunction
      [] provider \in MLKEMVariants -> MLKEMProvider_verify(data, signature)
      [] provider = "CRYSTALS-Dilithium" -> DilithiumProvider_sign

\* provider.generateKeyPair(): the kind of the keys it returns.
generateKeyPair(provider) ==
    CASE provider \in { "RSA-OAEP", "Hybrid-RSA-ML-KEM" } -> Resolved("RSA-OAEP", TRUE)
      [] provider \in MLKEMVariants -> Resolved("Uint8Array", TRUE)
      [] provider = "CRYSTALS-Dilithium" ->
            CryptoError("NOT_IMPLEMENTED", "CRYSTALS-Dilithium", FALSE)

NoSent == [ value |-> NoValue, text |-> NoValue, pair |-> 0, provider |-> None ]

\* The outcome of a provider call, with the call it belongs to.
ProviderCall(op, provider, pair, text, outcome) ==
    [ op |-> op, provider |-> provider, pair |-> pair, text |-> text ] @@ outcome

NoProviderCall == ProviderCall(None, None, 0, NoValue, Resolved(NoValue, FALSE))

ProvidersInit ==
    /\ pkeys = <<>>
    /\ nextSecret = 0
    /\ sent = NoSent
    /\ pret = NoProviderCall

\* Whether encrypt / decrypt of this provider generates a key for the call.
DrawsKey(provider, key) ==
    provider \in MLKEMVariants /\ KeyKind(key) = "Uint8Array"

\* kp = await provider.generateKeyPair()
GenerateKeyPair(provider) ==
    LET made == generateKeyPair(provider)
        n == nextSecret + 1
    IN  /\ nextSecret < MaxSecrets
        /\ Cardinality(DOMAIN pkeys) < MaxPairs
        /\ IF made.ok
           THEN /\ pkeys' = (n :> [ provider |-> provider, kind |-> made.value ]) @@ pkeys
                /\ nextSecret' = n
                /\ pret' = ProviderCall("generateKeyPair", provider, n, NoValue, made)
           ELSE /\ pret' = ProviderCall("generateKeyPair", provider, 0, NoValue, made)
                /\ UNCHANGED <<pkeys, nextSecret>>
        /\ UNCHANGED <<sent, kmVars, factoryVars, utilVars>>

\* MLKEMProvider.generateKeys(): one AES-GCM key as both halves.
GenerateKeys(provider) ==
    LET n == nextSecret + 1
    IN  /\ nextSecret < MaxSecrets
        /\ Cardinality(DOMAIN pkeys) < MaxPairs
        /\ pkeys' = (n :> [ provider |-> provider, kind |-> "AES-GCM" ]) @@ pkeys
        /\ nextSecret' = n
        /\ pret' = ProviderCall("generateKeys", provider, n, NoValue,
                                Resolved("AES-GCM", TRUE))
        /\ UNCHANGED <<sent, kmVars, factoryVars, utilVars>>

\* c = await provider.encrypt(text, kp.publicKey)
Encrypt(provider, text, n) ==
    LET draws == DrawsKey(provider, PublicKey(n))
        outcome == encrypt(provider, text, PublicKey(n), nextSecret + 1)
    IN  /\ n \in DOMAIN pkeys
        /\ draws => nextSecret < MaxSecrets
        /\ nextSecret' = IF draws THEN nextSecret + 1 ELSE nextSecret
        /\ pret' = ProviderCall("encrypt", provider, n, text, outcome)
        /\ sent' = IF outcome.ok
                   THEN [ value |-> outcome.value, text |-> text, pair |-> n,
                          provider |-> provider ]
                   ELSE sent
        /\ UNCHANGED <<pkeys, kmVars, factoryVars, utilVars>>

\* await provider.decrypt(c, kp.privateKey), c the latest ciphertext
Decrypt(provider, n) ==
    LET draws == DrawsKey(provider, PrivateKey(n))
        outcome == decrypt(provider, sent.value, PrivateKey(n), nextSecret + 1)
    IN  /\ n \in DOMAIN pkeys
        /\ sent # NoSent
        /\ draws => nextSecret < MaxSecrets
        /\ nextSecret' = IF draws THEN nextSecret + 1 ELSE nextSecret
        /\ pret' = ProviderCall("decrypt", provider, n, NoValue, outcome)
        /\ UNCHANGED <<pkeys, sent, kmVars, factoryVars, utilVars>>

\* await provider.sign(data, kp.privateKey)
Sign(provider, data, n) ==
    /\ n \in DOMAIN pkeys
    /\ pret' = ProviderCall("sign", provider, n, NoValue, sign(provider, data))
    /\ UNCHANGED <<pkeys, nextSecret, sent, kmVars, factoryVars, utilVars>>

\* await provider.verify(data, signature, kp.publicKey)
Verify(provider, data, signature, n) ==
    /\ n \in DOMAIN pkeys
    /\ pret' = ProviderCall("verify", provider, n, NoValue,
                            verify(provider, data, signature))
    /\ UNCHANGED <<pkeys, nextSecret, sent, kmVars, factoryVars, utilVars>>

(***************************************************************************)
(* shared/cryptoUtils.ts: the ECDH + AES-GCM message envelope.  A buffer   *)
(* is the sequence of its bytes, each byte written by the component it     *)
(* belongs to, that component's value and its offset in it.                *)
(***************************************************************************)
SpkiP256Length == 91    \* bytes of an exported P-256 public key
IvLength == 12          \* bytes of the nonce
TagLength == 16         \* bytes of the AES-GCM tag
KeyOffset == 91         \* combined.slice(0, 91)
IvOffset == 103         \* combined.slice(91, 103), combined.slice(103)

Recipients == { "keyPair1", "keyPair2" }
Ephemerals == { "ephemeral1", "ephemeral2" }
Nonces == { "iv1", "iv2" }

Messages ==
    [ units : UNION { [1..n -> CodeUnits] : n \in 0..MaxUnits }, filler : 0..MaxPadding ]

Bytes(component, value, length) == [ i \in 1..length |-> <<component, value, i>> ]

\* An export with the point compressed: 32 bytes shorter.
exportSpki_Compressed(pair) == Bytes("spki", pair, SpkiP256Length - 32)

\* crypto.subtle.exportKey('spki', publicKey)
exportSpki(pair) == Bytes("spki", pair, SpkiP256Length)

\* crypto.subtle.deriveKey: ECDH of one pair's private and the other's public key.
deriveKey(privatePair, publicPair) == { privatePair, publicPair }

\* crypto.subtle.encrypt({ name: 'AES-GCM', iv }, key, data)
aesGcmEncrypt(iv, key, data) ==
    Bytes("ciphertext", [ key |-> key, iv |-> iv, plain |-> data ],
          ByteLength(data) + TagLength)

\* combined.slice(begin, end)
slice(buffer, begin, end) ==
    SubSeq(buffer, begin + 1, IF end < Len(buffer) THEN end ELSE Len(buffer))

\* encryptMessage(message, recipientPublicKey), with the ephemeral pair and
\* the nonce it draws
encryptMessage(message, recipient, ephemeral, iv) ==
    LET sharedSecret == deriveKey(ephemeral, recipient)
        encryptedBuffer == aesGcmEncrypt(iv, sharedSecret, TextEncoder(message))
        ephemeralPublicKeyBuffer == exportSpki(ephemeral)
    IN  arrayBufferToBase64(ephemeralPublicKeyBuffer \o Bytes("iv", iv, IvLength)
                            \o encryptedBuffer)

\* decryptMessage(encryptedMessage, privateKey)
decryptMessage(encryptedMessage, privateKey) ==
    LET combined == base64ToArrayBuffer(encryptedMessage)
        ephemeralPublicKeyBuffer == slice(combined, 0, KeyOffset)
        iv == slice(combined, KeyOffset, IvOffset)
        encryptedBuffer == slice(combined, IvOffset, Len(combined))
        ephemeral == ephemeralPublicKeyBuffer[1][2]
        box == encryptedBuffer[1][2]
    IN  IF \/ ephemeralPublicKeyBuffer = <<>>
           \/ ephemeralPublicKeyBuffer # exportSpki(ephemeral)
        THEN Thrown("DataError", FALSE)
        ELSE IF \/ Len(encryptedBuffer) < TagLength
                \/ encryptedBuffer[1][1] # "ciphertext"
                \/ encryptedBuffer # aesGcmEncrypt(box.iv, box.key, box.plain)
                \/ box.key # deriveKey(privateKey, ephemeral)
                \/ iv # Bytes("iv", box.iv, IvLength)
        THEN Thrown("OperationError", TRUE)
        ELSE Resolved(TextDecoder(box.plain), TRUE)

NoEnvelope ==
    [ op |-> None, message |-> NoValue, recipient |-> None, ephemeral |-> None,
      iv |-> None, blob |-> NoValue, reader |-> None, outcome |-> Resolved(NoValue, FALSE) ]

NoReport ==
    [ total |-> -1, active |-> -1, quantumSafe |-> -1, quantumVulnerable |-> -1,
      expiringSoon |-> -1, needRotation |-> -1 ]

NoAdvice ==
    [ op |-> None, threatLevel |-> -1, quantumThresholdScore |-> -1,
      enableHybridMode |-> FALSE, algorithm |-> None ]

NoFactors ==
    [ timeToQuantum |-> -1, quantumProgress |-> -1, industryReadiness |-> -1,
      regulatoryPressure |-> -1 ]

NoThreat == [ op |-> None, factors |-> NoFactors, score |-> -1, raisedFrom |-> -1, before |-> -1 ]

NoAudit ==
    [ totalMessages |-> 0, quantumVulnerableMessages |-> 0, quantumSafeMessages |-> 0,
      hybridMessages |-> 0, recommendations |-> <<>>, threatLevel |-> -1,
      lastAssessment |-> -1 ]

NoLifecycleEvent == [ keyId |-> None, type |-> None ]

NoMonitorRet ==
    [ op |-> None, keyId |-> None, value |-> <<>>, report |-> NoAudit,
      event |-> NoLifecycleEvent, status |-> None ]

\* The sockets of a run, by their socket.id.
SocketIds == { "socket_1", "socket_2" }

\* A socket that has not connected: no user:join handler awaits the
\* database and the disconnect handler has not begun.
NewSocket == [ state |-> "new", joined |-> 0, joining |-> 0, leaving |-> "no" ]

UtilsInit ==
    /\ envelope = NoEnvelope
    /\ report = NoReport
    /\ advice = NoAdvice
    /\ threat = NoThreat
    /\ auditHistory = <<>>
    /\ keyEvents = <<>>
    /\ mret = NoMonitorRet
    /\ activeUsers = <<>>
    /\ sockets = [ s \in SocketIds |-> NewSocket ]

\* blob = await encryptMessage(message, recipient.publicKey)
EncryptMessage(message, recipient, ephemeral, iv) ==
    /\ envelope' = [ NoEnvelope EXCEPT
                       !.op = "encryptMessage", !.message = message,
                       !.recipient = recipient, !.ephemeral = ephemeral, !.iv = iv,
                       !.blob = encryptMessage(message, recipient, ephemeral, iv) ]
    /\ UNCHANGED <<kmVars, factoryVars, providerVars, relayVars, report, advice, monitorVars>>

\* await decryptMessage(blob, reader.privateKey)
DecryptMessage(reader) ==
    /\ envelope.op # None
    /\ envelope' = [ envelope EXCEPT
                       !.op = "decryptMessage", !.reader = reader,
                       !.outcome = decryptMessage(envelope.blob, reader) ]
    /\ UNCHANGED <<kmVars, factoryVars, providerVars, relayVars, report, advice, monitorVars>>

(***************************************************************************)
(* Algorithm recommendations: SecurityMonitorService.recommendAlgorithm    *)
(* and CryptoProviderFactory.getRecommendedAlgorithm.  A threat score is   *)
(* a number from 0 to 100.                                                 *)
(***************************************************************************)
\* What calculateThreatScore returns: Math.round of a value clamped to
\* 0..100, computed from the clock and Math.random.
ThreatScores == 0..100

\* SecurityMonitorService.recommendAlgorithm, after assessQuantumThreat
\* returned threatLevel.
recommendAlgorithm(threatLevel) ==
    IF threatLevel >= 90 THEN "ML-KEM-1024"
    ELSE IF threatLevel >= 70 THEN "ML-KEM-768"
    ELSE IF threatLevel >= 50 THEN "Hybrid-RSA-ML-KEM"
    ELSE IF threatLevel >= 25 THEN "ML-KEM-512"
    ELSE "RSA-OAEP"

\* 60 + Math.random() * 30, by its integer part: the thresholds it is
\* compared with are integers.
SimulatedThreatLevels == 60..89

\* config?.quantumThresholdScore || 50
thresholdOrDefault == IF config.quantumThresholdScore = 0 THEN 50 ELSE config.quantumThresholdScore

getRecommendedAlgorithm_HybridFirst(threatLevel) ==
    IF threatLevel >= thresholdOrDefault /\ ~config.enableHybridMode THEN "ML-KEM-768"
    ELSE IF threatLevel >= 50
         THEN IF config.enableHybridMode THEN "Hybrid-RSA-ML-KEM" ELSE "ML-KEM-768"
         ELSE IF config.enableHybridMode THEN "Hybrid-RSA-ML-KEM" ELSE "RSA-OAEP"

\* CryptoProviderFactory.getRecommendedAlgorithm, after the threat level
\* was drawn.
getRecommendedAlgorithm(threatLevel) ==
    IF threatLevel >= thresholdOrDefault THEN "ML-KEM-768"
    ELSE IF threatLevel >= 50
         THEN IF config.enableHybridMode THEN "Hybrid-RSA-ML-KEM" ELSE "ML-KEM-768"
         ELSE IF config.enableHybridMode THEN "Hybrid-RSA-ML-KEM" ELSE "RSA-OAEP"

\* securityMonitor.recommendAlgorithm().  The monitor holds no
\* configuration; the advice notes the factory's hybrid-mode setting at the
\* time of the call, which the monitor does not read.
RecommendAlgorithm ==
    /\ \E threatLevel \in ThreatScores :
         advice' = [ op |-> "recommendAlgorithm",
                     threatLevel |-> threatLevel,
                     quantumThresholdScore |-> -1,
                     enableHybridMode |-> config.enableHybridMode,
                     algorithm |-> recommendAlgorithm(threatLevel) ]
    /\ UNCHANGED <<kmVars, factoryVars, providerVars, relayVars, envelope, report, monitorVars>>

\* cryptoFactory.getRecommendedAlgorithm()
GetRecommendedAlgorithm ==
    /\ \E threatLevel \in SimulatedThreatLevels :
         advice' = [ op |-> "getRecommendedAlgorithm",
                     threatLevel |-> threatLevel,
                     quantumThresholdScore |-> config.quantumThresholdScore,
                     enableHybridMode |-> config.enableHybridMode,
                     algorithm |-> getRecommendedAlgorithm(threatLevel) ]
    /\ UNCHANGED <<kmVars, factoryVars, providerVars, relayVars, envelope, report, monitorVars>>

(***************************************************************************)
(* SecurityMonitorService: the threat score.  Factors and scores are       *)
(* numbers; the model computes with integer factor values and keeps the    *)
(* weighted sum in tenths, so that Math.round sees the exact halves.       *)
(***************************************************************************)
QUANTUM_TIMELINE_ESTIMATE == 2030

Min(a, b) == IF a < b THEN a ELSE b
Max(a, b) == IF a > b THEN a ELSE b

\* Math.max(0, Math.min(100, x))
Clamp(x) == Max(0, Min(100, x))

\* assessQuantumProgress, in the year `year` with Math.random() * 20 - 10 = variation
assessQuantumProgress(year, variation) ==
    Clamp(Min(90, (year - 2020) * 10) + variation)

\* assessIndustryReadiness, `months` months after the NIST finalization
assessIndustryReadiness(months) == Clamp(months * 10)

\* assessRegulatoryPressure, CURRENT_YEAR being currentYear
assessRegulatoryPressure(currentYear) ==
    Clamp(100 - (QUANTUM_TIMELINE_ESTIMATE - currentYear) * 10)

\* gatherThreatFactors: 100 - (yearsRemaining / 20) * 100 is 100 - 5 * yearsRemaining.
gatherThreatFactors(currentYear, year, variation, months) ==
    [ timeToQuantum |-> Clamp(100 - 5 * (QUANTUM_TIMELINE_ESTIMATE - currentYear)),
      quantumProgress |-> assessQuantumProgress(year, variation),
      industryReadiness |-> assessIndustryReadiness(months),
      regulatoryPressure |-> assessRegulatoryPressure(currentYear) ]

\* The weights 0.4, 0.3, 0.2, 0.1, in tenths.
weights ==
    [ timeToQuantum |-> 4, quantumProgress |-> 3, industryReadiness |-> 2,
      regulatoryPressure |-> 1 ]

\* Ten times the weighted sum of calculateThreatScore.
WeightedTenths(factors) ==
    factors.timeToQuantum * weights.timeToQuantum
        + factors.quantumProgress * weights.quantumProgress
        + factors.industryReadiness * weights.industryReadiness
        + factors.regulatoryPressure * weights.regulatoryPressure

\* Math.round of a number given in tenths: halves go up.
RoundTenths(tenths) == (tenths + 5) \div 10

\* The score counting the years left: urgency enters with its complement.
calculateThreatScore_Countdown(factors) ==
    RoundTenths(Min(1000, Max(0,
        WeightedTenths([ factors EXCEPT !.timeToQuantum = 100 - @ ]))))

\* The weighted sum returned as it is, in tenths.
calculateThreatScore_Raw(factors) == WeightedTenths(factors)

\* calculateThreatScore(factors)
calculateThreatScore(factors) ==
    RoundTenths(Min(1000, Max(0, WeightedTenths(factors))))

\* score = await monitor.assessQuantumThreat()
AssessQuantumThreat(currentYear, year, variation, months) ==
    LET factors == gatherThreatFactors(currentYear, year, variation, months)
    IN  /\ threat' = [ NoThreat EXCEPT !.op = "assessQuantumThreat",
                                       !.factors = factors,
                                       !.score = calculateThreatScore(factors) ]
        /\ UNCHANGED <<kmVars, factoryVars, providerVars, relayVars, envelope, report, advice,
                       auditHistory, keyEvents, mret>>

\* calculateThreatScore(factors)
CalculateThreatScore(factors) ==
    /\ threat' = [ NoThreat EXCEPT !.op = "calculateThreatScore",
                                   !.factors = factors,
                                   !.score = calculateThreatScore(factors) ]
    /\ UNCHANGED <<kmVars, factoryVars, providerVars, relayVars, envelope, report, advice,
                   auditHistory, keyEvents, mret>>

\* calculateThreatScore again, with the temporal-urgency factor replaced and
\* the three other factors as in the previous call.
Recalculate(timeToQuantum) ==
    LET factors == [ threat.factors EXCEPT !.timeToQuantum = timeToQuantum ]
    IN  /\ threat.op # None
        /\ threat' = [ op |-> "calculateThreatScore",
                       factors |-> factors,
                       score |-> calculateThreatScore(factors),
                       raisedFrom |-> threat.factors.timeToQuantum,
                       before |-> threat.score ]
        /\ UNCHANGED <<kmVars, factoryVars, providerVars, relayVars, envelope, report, advice,
                       auditHistory, keyEvents, mret>>

(***************************************************************************)
(* SecurityMonitorService: audits and the per-key event log.  An audit     *)
(* touches the monitor's state once, at its push, after its only await     *)
(* (assessQuantumThreat): it is one step.                                  *)
(***************************************************************************)
\* Math.floor(total * 0.7) and Math.floor(total * 0.2)
Estimate(total, tenths) == (total * tenths) \div 10

\* generateRecommendations(report): the lines by the branch that adds them.
generateRecommendations(audit) ==
    LET vulnerable == audit.quantumVulnerableMessages * 100
        total == audit.totalMessages
        migration == IF vulnerable > 80 * total THEN << "urgent", "plan", "action" >>
                     ELSE IF vulnerable > 60 * total THEN << "warning", "accelerate" >>
                     ELSE IF vulnerable > 40 * total THEN << "good", "continue" >>
                     ELSE << "excellent", "monitor" >>
        emergency == IF audit.threatLevel > 75 THEN << "emergency" >> ELSE <<>>
    IN  migration \o emergency \o << "nist", "rotation" >>

\* The report auditCryptoUsage builds.
NewAudit(threatLevel, totalMessages) ==
    LET counted == [ NoAudit EXCEPT
                       !.threatLevel = threatLevel,
                       !.lastAssessment = now,
                       !.totalMessages = totalMessages,
                       !.quantumVulnerableMessages = Estimate(totalMessages, 7),
                       !.quantumSafeMessages = Estimate(totalMessages, 2),
                       !.hybridMessages = totalMessages - Estimate(totalMessages, 7)
                                              - Estimate(totalMessages, 2) ]
    IN  [ counted EXCEPT !.recommendations = generateRecommendations(counted) ]

\* this.auditHistory.push(report)
push(history, audit) == Append(history, audit)

MaxAudits == HistoryLimit + 1

\* report = await monitor.auditCryptoUsage()
AuditCryptoUsage(threatLevel, totalMessages) ==
    LET audit == NewAudit(threatLevel, totalMessages)
    IN  /\ Len(auditHistory) < MaxAudits
        /\ auditHistory' = push(auditHistory, audit)
        /\ mret' = [ NoMonitorRet EXCEPT !.op = "auditCryptoUsage", !.report = audit ]
        /\ UNCHANGED <<kmVars, factoryVars, providerVars, relayVars, envelope, report, advice,
                       threat, keyEvents>>

\* The status getSystemQuantumReadiness gives the share of quantum-safe and
\* hybrid messages.
ReadinessStatus(audit) ==
    LET safe == (audit.quantumSafeMessages + audit.hybridMessages) * 100
        total == audit.totalMessages
    IN  IF safe >= 90 * total THEN "excellent"
        ELSE IF safe >= 70 * total THEN "good"
        ELSE IF safe >= 50 * total THEN "warning"
        ELSE "critical"

\* readiness = await monitor.getSystemQuantumReadiness()
GetSystemQuantumReadiness(threatLevel, totalMessages) ==
    LET audit == NewAudit(threatLevel, totalMessages)
        warning == IF threatLevel >= 75 THEN << "accelerate migration" >> ELSE <<>>
    IN  /\ Len(auditHistory) < MaxAudits
        /\ auditHistory' = push(auditHistory, audit)
        /\ mret' = [ NoMonitorRet EXCEPT
                       !.op = "getSystemQuantumReadiness", !.report = audit,
                       !.status = ReadinessStatus(audit),
                       !.value = << ReadinessStatus(audit) >> \o warning
                                     \o audit.recommendations ]
        /\ UNCHANGED <<kmVars, factoryVars, providerVars, relayVars, envelope, report, advice,
                       threat, keyEvents>>

\* this.keyEvents.get(keyId) || []
eventsOf(keyId) == IF keyId \in DOMAIN keyEvents THEN keyEvents[keyId] ELSE <<>>

\* A log that keeps the newest event of each key only.
recordKeyEvent_Newest(event) == (event.keyId :> << event >>) @@ keyEvents

\* recordKeyEvent(event): the map after the push and the set.
recordKeyEvent(event) ==
    (event.keyId :> Append(eventsOf(event.keyId), event)) @@ keyEvents

RECURSIVE Recorded(_)
Recorded(ids) ==
    IF ids = {} THEN 0
    ELSE LET k == CHOOSE k \in ids : TRUE
         IN  Len(keyEvents[k]) + Recorded(ids \ { k })

\* monitor.recordKeyEvent(event)
RecordKeyEvent(event) ==
    /\ Recorded(DOMAIN keyEvents) < MaxEvents
    /\ keyEvents' = recordKeyEvent(event)
    /\ mret' = [ NoMonitorRet EXCEPT !.op = "recordKeyEvent", !.keyId = event.keyId,
                                     !.event = event ]
    /\ UNCHANGED <<kmVars, factoryVars, providerVars, relayVars, envelope, report, advice,
                   threat, auditHistory>>

\* events = await monitor.trackKeyLifecycle(keyId)
TrackKeyLifecycle(keyId) ==
    /\ mret' = [ NoMonitorRet EXCEPT !.op = "trackKeyLifecycle", !.keyId = keyId,
                                     !.value = eventsOf(keyId) ]
    /\ UNCHANGED <<kmVars, factoryVars, providerVars, relayVars, envelope, report, advice,
                   threat, auditHistory, keyEvents>>

(***************************************************************************)
(* The relay server: the handlers of a socket's user:join and disconnect   *)
(* events.  Each handler runs to its await of the database and resumes     *)
(* when the database call settles; db.run may fail, which rejects.         *)
(***************************************************************************)
\* io.on('connection', socket => ...)
Connect(s) ==
    /\ sockets[s].state = "new"
    /\ sockets' = [sockets EXCEPT ![s].state = "connected"]
    /\ UNCHANGED <<activeUsers, kmVars, factoryVars, providerVars,
                   envelope, report, advice, monitorVars>>

\* socket.on('user:join'), up to await db.createUser(user)
UserJoin(s) ==
    /\ sockets[s].state = "connected"
    /\ sockets[s].joined < MaxJoins
    /\ sockets' = [sockets EXCEPT ![s].joined = @ + 1, ![s].joining = @ + 1]
    /\ UNCHANGED <<activeUsers, kmVars, factoryVars, providerVars,
                   envelope, report, advice, monitorVars>>

\* The user object the user:join handler built.
User(s) == [ id |-> s, isOnline |-> TRUE ]

\* db.createUser settles and the user:join handler goes on: the user is put
\* in activeUsers, or the rejection is caught and logged.
CreateUserSettles(s, ok) ==
    /\ sockets[s].joining > 0
    /\ sockets' = [sockets EXCEPT ![s].joining = @ - 1]
    /\ activeUsers' = IF ok THEN (s :> User(s)) @@ activeUsers ELSE activeUsers
    /\ UNCHANGED <<kmVars, factoryVars, providerVars,
                   envelope, report, advice, monitorVars>>

\* socket.on('disconnect'), up to await db.updateUserStatus(user); with no
\* user in activeUsers the handler ends at once.
Disconnect(s) ==
    /\ sockets[s].state = "connected"
    /\ IF s \in DOMAIN activeUsers
       THEN /\ activeUsers' = [activeUsers EXCEPT ![s].isOnline = FALSE]
            /\ sockets' = [sockets EXCEPT ![s].state = "disconnected",
                                          ![s].leaving = "updateUserStatus"]
       ELSE /\ sockets' = [sockets EXCEPT ![s].state = "disconnected",
                                          ![s].leaving = "done"]
            /\ UNCHANGED activeUsers
    /\ UNCHANGED <<kmVars, factoryVars, providerVars,
                   envelope, report, advice, monitorVars>>

\* activeUsers.delete(socket.id)
delete(users, s) == [ id \in DOMAIN users \ { s } |-> users[id] ]

\* db.updateUserStatus settles and the disconnect handler goes on: the user
\* is removed, or the rejection is caught and logged.
UpdateUserStatusSettles(s, ok) ==
    /\ sockets[s].leaving = "updateUserStatus"
    /\ sockets' = [sockets EXCEPT ![s].leaving = "done"]
    /\ activeUsers' = IF ok THEN delete(activeUsers, s) ELSE activeUsers
    /\ UNCHANGED <<kmVars, factoryVars, providerVars,
                   envelope, report, advice, monitorVars>>

(***************************************************************************)
(* KeyManagementService.getKeyHealthReport.                                *)
(***************************************************************************)
SoonThreshold == 7      \* days

Count(S) == Cardinality(S)

\* getKeyHealthReport()
getKeyHealthReport ==
    LET ids == DOMAIN keys
    IN  [ total |-> Count(ids),
          active |-> Count({ k \in ids : keys[k].status = "active" }),
          quantumSafe |-> Count({ k \in ids : keys[k].isQuantumSafe }),
          quantumVulnerable |->
              Count({ k \in ids : ~keys[k].isQuantumSafe /\ keys[k].status = "active" }),
          expiringSoon |->
              Count({ k \in ids : /\ keys[k].expiresAt # NoDate
                                  /\ keys[k].status = "active"
                                  /\ keys[k].expiresAt - now < SoonThreshold }),
          needRotation |->
              Count({ k \in ids : /\ keys[k].status = "active"
                                  /\ keys[k].expiresAt # NoDate
                                  /\ now > keys[k].expiresAt }) ]

\* report = keyManager.getKeyHealthReport()
GetKeyHealthReport ==
    /\ report' = getKeyHealthReport
    /\ UNCHANGED <<kmVars, factoryVars, providerVars, relayVars, envelope, advice, monitorVars>>

(***************************************************************************)
(* Inputs of the calls.                                                    *)
(***************************************************************************)
Rands == 1..MaxRand

KnownOrNot == { keyOrder[i] : i \in 1..Len(keyOrder) } \cup { UnknownKey }

(***************************************************************************)
(* Spec: the key lifecycle.  One caller makes generateKey, rotateKey,      *)
(* revokeKey, checkKeyRotationNeeds and performScheduledRotations calls,   *)
(* each awaited before the next, while the clock moves on; no listener is  *)
(* registered.                                                             *)
(***************************************************************************)
Generation(c, cap) ==
    \/ \E a \in RequestedAlgorithms, r \in Rands : GenerateKey(c, a, r, cap)
    \/ \E ok \in BOOLEAN : CreateKeyPairSettles(c, ok)
    \/ \E k \in KnownOrNot, r \in Rands : RotateKey(c, k, r, cap)
    \/ RotateResume(c)
    \/ \E k \in KnownOrNot : RevokeKey(c, k)

Scanning(c, cap) ==
    \/ CheckKeyRotationNeeds(c)
    \/ \E level \in getCurrentQuantumThreatLevel : ThreatLevelSettles(c, level)
    \/ PerformScheduledRotations(c)
    \/ \E r \in Rands : SweepNext(c, r, cap)

Init ==
    /\ KeyManagerInit
    /\ FactoryConstructed /\ served = NoHistory
    /\ unavailable = {}
    /\ ProvidersInit /\ UtilsInit

Next ==
    \/ Generation(MainCaller, MaxKeys)
    \/ Scanning(MainCaller, MaxKeys)
    \/ Tick

Spec == Init /\ [][Next]_vars

(***************************************************************************)
(* SpecEvents: event fan-out.  Listeners are added and removed between     *)
(* the calls that emit events (generateKey, rotateKey, revokeKey,          *)
(* recordKeyUsage); the clock stands still.                                *)
(***************************************************************************)
EventsNext ==
    \/ Generation(MainCaller, MaxKeys)
    \/ \E k \in KnownOrNot : RecordKeyUsage(MainCaller, k)
    \/ \E l \in Listeners : AddEventListener(l)
    \/ \E l \in Listeners : RemoveEventListener(l)

SpecEvents == Init /\ [][EventsNext]_vars

(***************************************************************************)
(* SpecFanout: event fan-out to listeners that register and remove         *)
(* listeners while they are being called.                                  *)
(***************************************************************************)
LiveListeners == { "recorder", "once", "remover", "adder" }

FanoutNext ==
    \/ \E r \in Rands : GenerateKey(MainCaller, "RSA-OAEP", r, MaxKeys)
    \/ \E ok \in BOOLEAN : CreateKeyPairSettles(MainCaller, ok)
    \/ \E k \in KnownOrNot : RecordKeyUsage(MainCaller, k)
    \/ \E l \in LiveListeners : AddEventListener(l)
    \/ \E l \in LiveListeners : RemoveEventListener(l)

SpecFanout == Init /\ [][FanoutNext]_vars

(***************************************************************************)
(* SpecSweep: rotation scans and sweeps over a table of up to MaxSweepKeys *)
(* active RSA-OAEP keys, generated one after the other.                    *)
(***************************************************************************)
SweepIds == Instants \X Rands

\* The i-th identifier, by instant and then by suffix.
SweepKey(i) ==
    CHOOSE k \in SweepIds :
        Cardinality({ j \in SweepIds : j[1] < k[1] \/ (j[1] = k[1] /\ j[2] < k[2]) }) = i - 1

SweepCap == MaxSweepKeys + MaxReplacements

SweepTable(sizes) ==
    \E n \in sizes :
        /\ now \in { t \in Instants : t >= SweepKey(n)[1] }
        /\ keyOrder = [ i \in 1..n |-> SweepKey(i) ]
        /\ keys = [ k \in { SweepKey(i) : i \in 1..n } |->
                      NewMetadata(k, "RSA-OAEP", k[1]) ]
        /\ keyStore = [ slot \in { SweepKey(i) : i \in 1..n } \X { "priv", "pub" } |->
                          [ pair |-> CHOOSE i \in 1..n : SweepKey(i) = slot[1],
                            half |-> slot[2] ] ]
        /\ nextPair = n
        /\ eventListeners = <<>>
        /\ task = [c \in Callers |-> IdleTask]
        /\ ret = NoRet
        /\ emitted = <<>>
        /\ delivered = <<>>
        /\ FactoryConstructed /\ served = NoHistory
        /\ unavailable = {}
        /\ ProvidersInit /\ UtilsInit

SweepInit == SweepTable(1..MaxSweepKeys) /\ rotations = NoRotations

SweepNextStep ==
    \/ Scanning(MainCaller, SweepCap)
    \/ \E ok \in BOOLEAN : CreateKeyPairSettles(MainCaller, ok)
    \/ RotateResume(MainCaller)

SpecSweep == SweepInit /\ [][SweepNextStep]_vars

(***************************************************************************)
(* SpecOverlap: two callers run rotateKey calls and rotation sweeps over a *)
(* table of one active RSA-OAEP key; their calls overlap at their awaits,  *)
(* and the rotated events emitted are remembered.                          *)
(***************************************************************************)
OverlapInit == SweepTable({ 1 }) /\ rotations = NoRotationsYet

OverlapCap == 1 + MaxReplacements

OverlapNext ==
    \E c \in Callers :
        \/ PerformScheduledRotations(c)
        \/ \E level \in getCurrentQuantumThreatLevel : ThreatLevelSettles(c, level)
        \/ \E r \in Rands : SweepNext(c, r, OverlapCap)
        \/ \E k \in KnownOrNot, r \in Rands : RotateKey(c, k, r, OverlapCap)
        \/ \E ok \in BOOLEAN : CreateKeyPairSettles(c, ok)
        \/ RotateResume(c)

SpecOverlap == OverlapInit /\ [][OverlapNext]_vars

(***************************************************************************)
(* SpecFactory: the provider factory.  createProvider calls of two callers *)
(* overlap at their awaits; updateConfig and clearCache run between their  *)
(* steps.  Each provider module either loads or does not, for the run.     *)
(***************************************************************************)
RequestedProviders == { None, "RSA-OAEP", "ML-KEM-768", "ECDH" }

ConfigPatches ==
    { [ preferredAlgorithm |-> "ML-KEM-768" ],
      [ fallbackAlgorithms |-> << "ML-KEM-768", "RSA-OAEP" >> ],
      [ fallbackAlgorithms |-> <<>> ] }

FactoryInit ==
    /\ KeyManagerInit
    /\ FactoryConstructed /\ served = NoHistory
    /\ unavailable \in SUBSET Modules
    /\ ProvidersInit /\ UtilsInit

FactoryNext ==
    \/ \E c \in Callers, a \in RequestedProviders : CreateProvider(c, a)
    \/ \E c \in Callers : InstantiateSettles(c)
    \/ \E patch \in ConfigPatches : UpdateConfig(patch)
    \/ ClearCache

SpecFactory == FactoryInit /\ [][FactoryNext]_vars

(***************************************************************************)
(* SpecCache: the factory as in SpecFactory with every provider module     *)
(* importable, and with the history of returned providers kept.            *)
(***************************************************************************)
CacheInit ==
    /\ KeyManagerInit
    /\ FactoryConstructed /\ served = EmptyHistory
    /\ unavailable = {}
    /\ ProvidersInit /\ UtilsInit

SpecCache == CacheInit /\ [][FactoryNext]_vars

(***************************************************************************)
(* SpecFlags: keys are generated, which derives their quantum-safe flag,   *)
(* and the factory is asked about every identifier of the enumeration.     *)
(***************************************************************************)
FlagsNext ==
    \/ \E a \in RequestedAlgorithms, r \in Rands : GenerateKey(MainCaller, a, r, MaxKeys)
    \/ \E ok \in BOOLEAN : CreateKeyPairSettles(MainCaller, ok)
    \/ \E a \in CryptoAlgorithmType : IsQuantumSafe(a)

SpecFlags == Init /\ [][FlagsNext]_vars

(***************************************************************************)
(* SpecAlgorithms: one caller asks the factory for every algorithm its     *)
(* switch can instantiate, for one it cannot, and for the preferred one.   *)
(***************************************************************************)
InstantiableAlgorithms == { a \in CryptoAlgorithmType : ProviderModule(a) # None }

EveryRequest == InstantiableAlgorithms \cup { None, "ECDH" }

AlgorithmsNext ==
    \/ \E a \in EveryRequest : CreateProvider(MainCaller, a)
    \/ InstantiateSettles(MainCaller)
    \/ ClearCache

SpecAlgorithms == FactoryInit /\ [][AlgorithmsNext]_vars

(***************************************************************************)
(* SpecProviders: key pairs are generated by the providers, plaintexts are *)
(* encrypted under them and the latest ciphertext is decrypted.            *)
(***************************************************************************)
PairNumbers == 1..MaxSecrets

ProvidersNext ==
    \/ \E provider \in Providers : GenerateKeyPair(provider)
    \/ \E provider \in MLKEMVariants : GenerateKeys(provider)
    \/ \E provider \in Providers, text \in Texts, n \in PairNumbers :
          Encrypt(provider, text, n)
    \/ \E provider \in Providers, n \in PairNumbers : Decrypt(provider, n)

SpecProviders == Init /\ [][ProvidersNext]_vars

(***************************************************************************)
(* SpecOperations: every provider is asked for every operation, encrypt,   *)
(* decrypt, sign and verify, with keys some provider generated; the        *)
(* plaintexts are short.                                                   *)
(***************************************************************************)
ShortTexts == { text \in Texts : text.filler = 0 }

SignedData == { "report", "receipt" }

Signatures == { sha256(data) : data \in SignedData }

OperationsNext ==
    \/ \E provider \in Providers : GenerateKeyPair(provider)
    \/ \E provider \in MLKEMVariants : GenerateKeys(provider)
    \/ \E provider \in Providers, text \in ShortTexts, n \in PairNumbers :
          Encrypt(provider, text, n)
    \/ \E provider \in Providers, n \in PairNumbers : Decrypt(provider, n)
    \/ \E provider \in Providers, data \in SignedData, n \in PairNumbers :
          Sign(provider, data, n)
    \/ \E provider \in Providers, data \in SignedData, signature \in Signatures,
          n \in PairNumbers :
          Verify(provider, data, signature, n)

SpecOperations == Init /\ [][OperationsNext]_vars

(***************************************************************************)
(* SpecEnvelope: messages are sealed for a recipient and the envelope in   *)
(* hand is opened with a recipient's private key.                          *)
(***************************************************************************)
EnvelopeNext ==
    \/ \E message \in Messages, recipient \in Recipients,
           ephemeral \in Ephemerals, iv \in Nonces :
          EncryptMessage(message, recipient, ephemeral, iv)
    \/ \E reader \in Recipients : DecryptMessage(reader)

SpecEnvelope == Init /\ [][EnvelopeNext]_vars

(***************************************************************************)
(* SpecHealth: getKeyHealthReport as a function of the metadata table.     *)
(* The table holds 1 to MaxHealthKeys KeyMetadata records, each built as   *)
(* generateKey builds the record of its algorithm, classical or            *)
(* post-quantum, and each active or marked as revokeKey marks it.          *)
(***************************************************************************)
HealthAlgorithms == { "RSA-OAEP", "ML-KEM-768" }
HealthStatuses == { "active", "revoked" }

HealthKey(i) == <<0, i>>

HealthInit ==
    \E n \in 1..MaxHealthKeys :
      \E algorithm \in [1..n -> HealthAlgorithms], status \in [1..n -> HealthStatuses] :
        /\ now = 0
        /\ keyOrder = [ i \in 1..n |-> HealthKey(i) ]
        /\ keys = [ k \in { HealthKey(i) : i \in 1..n } |->
                      [ NewMetadata(k, algorithm[k[2]], 0) EXCEPT !.status = status[k[2]] ] ]
        /\ keyStore = [ slot \in { HealthKey(i) : i \in { j \in 1..n : status[j] = "active" } }
                                 \X { "priv", "pub" } |->
                          [ pair |-> slot[1][2], half |-> slot[2] ] ]
        /\ nextPair = n
        /\ eventListeners = <<>>
        /\ task = [c \in Callers |-> IdleTask]
        /\ ret = NoRet
        /\ emitted = <<>>
        /\ delivered = <<>>
        /\ rotations = NoRotations
        /\ FactoryConstructed /\ served = NoHistory
        /\ unavailable = {}
        /\ ProvidersInit /\ UtilsInit

HealthNext ==
    \/ GetKeyHealthReport
    \/ Tick

SpecHealth == HealthInit /\ [][HealthNext]_vars

(***************************************************************************)
(* SpecAdvice: the monitor and the factory are asked for a recommendation  *)
(* while updateConfig sets the hybrid mode and the quantum threshold.      *)
(***************************************************************************)
Thresholds == { 0, 1, 49, 50, 51, 60, 61, 75, 89, 90, 100 }

AdvicePatches ==
    { [ enableHybridMode |-> h ] : h \in BOOLEAN }
        \cup { [ quantumThresholdScore |-> t ] : t \in Thresholds }

AdviceNext ==
    \/ RecommendAlgorithm
    \/ GetRecommendedAlgorithm
    \/ \E patch \in AdvicePatches : UpdateConfig(patch)

SpecAdvice == Init /\ [][AdviceNext]_vars

(***************************************************************************)
(* SpecThreat: threat scores are computed, by assessQuantumThreat from the *)
(* clock and the random variation, and by calculateThreatScore from        *)
(* factor values between 0 and 100.                                        *)
(***************************************************************************)
Years == { 2005, 2026, 2045 }

Variations == { -10, 0, 9 }

Months == { -5, 3, 27 }

FactorValues == { 0, 5, 50, 100 }

FactorSets ==
    [ timeToQuantum : FactorValues, quantumProgress : FactorValues,
      industryReadiness : FactorValues, regulatoryPressure : FactorValues ]

ThreatNext ==
    \/ \E currentYear \in Years, year \in Years, variation \in Variations,
          months \in Months :
          AssessQuantumThreat(currentYear, year, variation, months)
    \/ \E factors \in FactorSets : CalculateThreatScore(factors)
    \/ \E timeToQuantum \in FactorValues : Recalculate(timeToQuantum)

SpecThreat == Init /\ [][ThreatNext]_vars

(***************************************************************************)
(* SpecRelay: two sockets connect, send user:join events and disconnect;   *)
(* their handlers interleave at their awaits.                              *)
(***************************************************************************)
RelayNext ==
    \E s \in SocketIds :
        \/ Connect(s)
        \/ UserJoin(s)
        \/ \E ok \in BOOLEAN : CreateUserSettles(s, ok)
        \/ Disconnect(s)
        \/ \E ok \in BOOLEAN : UpdateUserStatusSettles(s, ok)

SpecRelay == Init /\ [][RelayNext]_vars

(***************************************************************************)
(* SpecAudit: audits run, directly and through getSystemQuantumReadiness,  *)
(* one more than HistoryLimit of them.                                     *)
(***************************************************************************)
AuditThreatLevels == { 60, 80 }

MessageCounts == { 100, 1099 }

AuditNext ==
    \/ \E threatLevel \in AuditThreatLevels, totalMessages \in MessageCounts :
          AuditCryptoUsage(threatLevel, totalMessages)
    \/ \E threatLevel \in AuditThreatLevels, totalMessages \in MessageCounts :
          GetSystemQuantumReadiness(threatLevel, totalMessages)

SpecAudit == Init /\ [][AuditNext]_vars

(***************************************************************************)
(* SpecEventLog: lifecycle events of two keys are recorded and the log of  *)
(* each key, and of a key nothing was recorded for, is read.               *)
(***************************************************************************)
LoggedKeys == { "key_1", "key_2" }

QueriedKeys == LoggedKeys \cup { "key_3" }

LifecycleEvents == [ keyId : LoggedKeys, type : { "created", "used" } ]

EventLogNext ==
    \/ \E event \in LifecycleEvents : RecordKeyEvent(event)
    \/ \E keyId \in QueriedKeys : TrackKeyLifecycle(keyId)

SpecEventLog == Init /\ [][EventLogNext]_vars


(***************************************************************************)
(* Properties of the key lifecycle.                                        *)
(***************************************************************************)
KeyIds == DOMAIN keys

Retrievable(keyId) == getKey(keyId) # NoMaterial /\ getPublicKey(keyId) # NoMaterial

NotFound(keyId) == getKey(keyId) = NoMaterial /\ getPublicKey(keyId) = NoMaterial

\* C1: once a key is revoked, every later step leaves its status revoked and
\* its private and public material not found.
C1_RevocationIrreversible ==
    [][ \A k \in KeyIds :
          (keys[k].status = "revoked" /\ NotFound(k))
              => /\ keys'[k].status = "revoked"
                 /\ PrivSlot(k) \notin DOMAIN keyStore'
                 /\ PubSlot(k) \notin DOMAIN keyStore' ]_vars

\* C2: when revokeKey(k) was called on an existing key, the call succeeded,
\* getKey(k) and getPublicKey(k) return null, getKeyMetadata(k) returns the
\* record with status revoked, and exactly one event, revoked for k, was emitted.
C2_RevokePostcondition ==
    (ret.op = "revokeKey" /\ ret.arg \in KeyIds) =>
        /\ ret.ok
        /\ NotFound(ret.arg)
        /\ getKeyMetadata(ret.arg) # NoMetadata
        /\ getKeyMetadata(ret.arg).id = ret.arg
        /\ getKeyMetadata(ret.arg).status = "revoked"
        /\ emitted = << Event(ret.arg, "revoked", keys[ret.arg].algorithm, NoKey) >>

C2_Witness ==
    /\ ret.op = "revokeKey"
    /\ ret.ok
    /\ Len(keyOrder) = 2
    /\ keys[ret.arg].status = "revoked"
    /\ \E k \in KeyIds : k # ret.arg /\ Retrievable(k)

\* C3: when rotateKey(k) succeeded, k has status rotating and rotatedAt set,
\* the returned identifier differs from k and names an active key of the same
\* algorithm, and both halves of k's material are retrievable.
C3_RotatePostcondition ==
    (ret.op = "rotateKey" /\ ret.ok) =>
        /\ keys[ret.arg].status = "rotating"
        /\ keys[ret.arg].rotatedAt # NoDate
        /\ ret.value # ret.arg
        /\ ret.value \in KeyIds
        /\ keys[ret.value].algorithm = keys[ret.arg].algorithm
        /\ keys[ret.value].status = "active"
        /\ Retrievable(ret.arg)

\* C4: a step changes a key's status only along active -> rotating,
\* rotating -> revoked or active -> expired.
C4_LifecycleOrder ==
    [][ \A k \in KeyIds :
          \/ keys'[k].status = keys[k].status
          \/ <<keys[k].status, keys'[k].status>> \in
                { <<"active", "rotating">>, <<"rotating", "revoked">>,
                  <<"active", "expired">> } ]_vars


(***************************************************************************)
(* Properties of the rotation scan and sweep.                              *)
(***************************************************************************)
KeysOf(entries) == [ i \in 1..Len(entries) |-> entries[i].keyId ]

Succeeded(entry) == entry.ok

Failed(entry) == ~entry.ok

\* C5: when performScheduledRotations returns, it has not failed; rotateKey
\* was attempted for every flagged key, in the order of the list; `rotated`
\* holds one identifier of a key in the table per attempt that succeeded and
\* `failed` one entry, naming the key, per attempt that failed.
C5_SweepPartialFailure ==
    (ret.op = "performScheduledRotations") =>
        /\ ret.ok
        /\ KeysOf(ret.attempts) = ret.flagged
        /\ Len(ret.rotated) = Len(SelectSeq(ret.attempts, Succeeded))
        /\ \A i \in 1..Len(ret.rotated) : ret.rotated[i] \in KeyIds
        /\ KeysOf(ret.failed) = KeysOf(SelectSeq(ret.attempts, Failed))

C5_Witness ==
    /\ ret.op = "performScheduledRotations"
    /\ Len(ret.flagged) = 3
    /\ Len(ret.rotated) = 2
    /\ KeysOf(ret.failed) = << ret.flagged[2] >>

\* The threat levels the scan read for a key: none for a key it skipped.
LevelRead(samples, keyId) ==
    { samples[i].level : i \in { j \in 1..Len(samples) : samples[j].keyId = keyId } }

ShouldFlag(keyId, scanNow, samples) ==
    /\ keys[keyId].status = "active"
    /\ \/ (keys[keyId].expiresAt # NoDate /\ keys[keyId].expiresAt < scanNow)
       \/ /\ ~keys[keyId].isQuantumSafe
          /\ \E level \in LevelRead(samples, keyId) :
                level >= rotationPolicies[keys[keyId].algorithm].quantumThreatThreshold

IsScanStep ==
    \/ \E c \in Callers : task[c].top = "checkKeyRotationNeeds"
    \/ ret'.op = "checkKeyRotationNeeds"

\* C9: checkKeyRotationNeeds returns, in map order, exactly the active keys
\* whose expiry lies before the scan's `now` or that are not quantum-safe
\* while the threat level read for them is at or above their policy's
\* threshold; and no step of the scan changes the key table or the material.
C9_ScanFlagsExactly ==
    /\ [] ( (ret.op = "checkKeyRotationNeeds") =>
              /\ ret.ok
              /\ ret.flagged =
                   SelectSeq(keyOrder,
                             LAMBDA k : ShouldFlag(k, ret.scanNow, ret.samples)) )
    /\ [][ IsScanStep => UNCHANGED <<keys, keyOrder, keyStore>> ]_vars

C9_Witness ==
    /\ ret.op = "checkKeyRotationNeeds"
    /\ Len(keyOrder) = 2
    /\ Len(ret.flagged) = 1
    /\ \E k \in KeyIds : keys[k].status = "active" /\ keys[k].expiresAt < ret.scanNow
    /\ \E k \in KeyIds :
          keys[k].status = "active" /\ LevelRead(ret.samples, k) = { 45 }

(***************************************************************************)
(* Properties of the event fan-out.                                        *)
(***************************************************************************)
\* C10: every event emitted in a step is delivered to every registered
\* listener, in list order, whether or not an earlier listener threw, and no
\* call fails with a listener's exception.
C10_ListenerIsolation ==
    /\ \A i \in 1..Len(emitted) :
          /\ [ j \in 1..Len(delivered) |-> delivered[j].listener ] = eventListeners
          /\ \A j \in 1..Len(delivered) : delivered[j].event = emitted[i]
    /\ ret.error # "listener"

C10_Witness ==
    /\ eventListeners = << "thrower", "recorder" >>
    /\ ret.op = "rotateKey"
    /\ ret.ok
    /\ Len(emitted) = 1
    /\ Len(delivered) = 2
    /\ delivered[1].threw
    /\ delivered[2].listener = "recorder"


(***************************************************************************)
(* Properties of the provider factory.                                     *)
(***************************************************************************)
\* Whether instantiateProvider(algorithm) resolves in this run.
CanInstantiate(algorithm) ==
    /\ ProviderModule(algorithm) # None
    /\ ProviderModule(algorithm) \notin unavailable

\* The algorithms of an attempt log, in the order they were attempted.
Attempted(attempts) == [ i \in 1..Len(attempts) |-> attempts[i].algorithm ]

\* The index of the first fallback that can be instantiated, 0 if none can.
RECURSIVE FirstViable(_, _)
FirstViable(fallbacks, i) ==
    IF i > Len(fallbacks) THEN 0
    ELSE IF CanInstantiate(fallbacks[i]) THEN i
    ELSE FirstViable(fallbacks, i + 1)

FellBack == fret.op = "createProvider" /\ ~fret.cached /\ Len(fret.attempts) > 1

\* C6: a createProvider call whose selected algorithm failed to instantiate
\* attempted, after it, the fallbacks in their configured order, each one
\* only after every attempt before it had failed, and stopped at the first
\* fallback that instantiated: it returns the provider instantiated for that
\* fallback, and attempted no fallback after it.
C6_FallbackOrder ==
    FellBack =>
        LET n == Len(fret.attempts)
            first == FirstViable(fret.fallbacks, 1)
        IN  /\ ~CanInstantiate(fret.selected)
            /\ n - 1 <= Len(fret.fallbacks)
            /\ Attempted(fret.attempts) = << fret.selected >> \o SubSeq(fret.fallbacks, 1, n - 1)
            /\ \A i \in 1..(n - 1) : ~fret.attempts[i].ok
            /\ fret.attempts[n].ok = fret.ok
            /\ first # 0 =>
                  /\ fret.ok
                  /\ n - 1 = first
                  /\ fret.provider.requested = fret.fallbacks[first]
                  /\ fret.provider.algorithm = fret.fallbacks[first]
            /\ first = 0 => ~fret.ok /\ n - 1 = Len(fret.fallbacks)

\* X = Hybrid-RSA-ML-KEM and Y = RSA-OAEP failed, Z = ML-KEM-768 was returned.
C6_Witness ==
    /\ FellBack
    /\ fret.ok
    /\ fret.fallbacks = << "RSA-OAEP", "ML-KEM-768" >>
    /\ fret.attempts = << [ algorithm |-> "Hybrid-RSA-ML-KEM", ok |-> FALSE ],
                          [ algorithm |-> "RSA-OAEP", ok |-> FALSE ],
                          [ algorithm |-> "ML-KEM-768", ok |-> TRUE ] >>
    /\ fret.provider.algorithm = "ML-KEM-768"

\* C7: a provider that createProvider returns from the cache was not begun
\* before the latest updateConfig: its instantiation began under the current
\* configuration.
C7_NoStaleProvider ==
    (fret.op = "createProvider" /\ fret.cached) =>
        fret.provider.began = configVersion

\* C8: a createProvider call fails, with ALGORITHM_NOT_SUPPORTED, exactly
\* when neither the selected algorithm nor any algorithm of the fallback list
\* it read can be instantiated; otherwise it returns a provider.
C8_FailsOnlyWhenExhausted ==
    fret.op = "createProvider" =>
        /\ ~fret.ok <=>
              /\ ~CanInstantiate(fret.selected)
              /\ \A i \in 1..Len(fret.fallbacks) : ~CanInstantiate(fret.fallbacks[i])
        /\ ~fret.ok => fret.error = "ALGORITHM_NOT_SUPPORTED" /\ fret.provider = NoProvider
        /\ fret.ok => fret.error = None /\ fret.provider # NoProvider

\* Both outcomes: the whole chain failed, and a later call got a provider
\* from a fallback after the selected algorithm and a fallback had failed.
C8_Witness ==
    /\ fret.op = "createProvider"
    /\ ~fret.ok
    /\ Len(fret.attempts) = 3
    /\ fret.error = "ALGORITHM_NOT_SUPPORTED"

C8_WitnessRecovered ==
    /\ FellBack
    /\ fret.ok
    /\ Len(fret.attempts) = 3

(***************************************************************************)
(* Further properties of the key table.                                    *)
(***************************************************************************)
\* C11: no step changes, for a key already in the table, anything but its
\* status, lastUsed and rotatedAt: the algorithm, quantum-safe flag, security
\* level and usage role recorded at creation stay, and so do the identifier,
\* the creation date and the expiry date.
C11_CreationFieldsFrozen ==
    [][ \A k \in KeyIds :
          keys'[k] = [ keys[k] EXCEPT !.status = keys'[k].status,
                                      !.lastUsed = keys'[k].lastUsed,
                                      !.rotatedAt = keys'[k].rotatedAt ] ]_vars

\* A step that completes rotateKey or revokeKey for an identifier that named
\* no key when the step began.
UnknownKeyCall ==
    /\ ret'.op \in { "rotateKey", "revokeKey" }
    /\ ret'.arg \notin DOMAIN keys

\* C12: rotateKey and revokeKey on an identifier that names no key fail with
\* "not found", leave the metadata table and the material store as they
\* were, and emit no event.
C12_UnknownKeyRejected ==
    [][ UnknownKeyCall =>
          /\ ~ret'.ok
          /\ ret'.error = "not found"
          /\ UNCHANGED <<keys, keyOrder, keyStore>>
          /\ emitted' = <<>> ]_vars

C12_Witness ==
    /\ ret.op \in { "rotateKey", "revokeKey" }
    /\ ret.error = "not found"
    /\ ret.arg \notin KeyIds
    /\ KeyIds # {}

(***************************************************************************)
(* Properties of the crypto providers.                                     *)
(***************************************************************************)
\* The providers of the supported algorithms.
SupportedProviders == Providers \ { "CRYSTALS-Dilithium" }

\* The last step decrypted, with the private half of a pair, the ciphertext
\* the same provider made with the public half of that pair, the pair one
\* that this provider's generateKeyPair returned.
RoundTrip ==
    /\ pret.op = "decrypt"
    /\ pret.provider \in SupportedProviders
    /\ sent.provider = pret.provider
    /\ sent.pair = pret.pair
    /\ pkeys[pret.pair].provider = pret.provider
    /\ pkeys[pret.pair].kind # "AES-GCM"

\* C13: for every supported provider, every key pair of its generateKeyPair
\* and every plaintext it encrypted under the public key, decrypting the
\* ciphertext with the private key succeeds and returns the plaintext.
C13_ProviderRoundTrip ==
    RoundTrip => pret.ok /\ pret.value = sent.text

(***************************************************************************)
(* Properties of the message envelope.                                     *)
(***************************************************************************)
\* A string without unpaired surrogates.
WellFormed(text) == \A i \in DOMAIN text.units : text.units[i] # "lone-surrogate"

Opened == envelope.op = "decryptMessage"

\* The blob is ephemeralPublicKey || nonce || ciphertext, and the split at
\* the fixed offsets returns exactly these three components.
SplitRecovers ==
    LET combined == base64ToArrayBuffer(envelope.blob)
        key == exportSpki(envelope.ephemeral)
        iv == Bytes("iv", envelope.iv, IvLength)
        ciphertext == aesGcmEncrypt(envelope.iv,
                                    deriveKey(envelope.ephemeral, envelope.recipient),
                                    TextEncoder(envelope.message))
    IN  /\ combined = key \o iv \o ciphertext
        /\ slice(combined, 0, KeyOffset) = key
        /\ slice(combined, KeyOffset, IvOffset) = iv
        /\ slice(combined, IvOffset, Len(combined)) = ciphertext

Reported == report # NoReport

\* The keys of the table with a given quantum-safe flag that are not revoked.
NotRevoked(flag) ==
    { k \in KeyIds : keys[k].isQuantumSafe = flag /\ keys[k].status # "revoked" }

MonitorAdvised == advice.op = "recommendAlgorithm"

FactoryAdvised == advice.op = "getRecommendedAlgorithm"

\* C16: the monitor recommends ML-KEM-1024 from score 90, ML-KEM-768 from
\* 70, from 50 the hybrid algorithm when hybrid mode is enabled and
\* ML-KEM-768 otherwise, ML-KEM-512 from 25, and RSA-OAEP below 25.
C16_MonitorThresholds ==
    MonitorAdvised =>
        LET s == advice.threatLevel
        IN  advice.algorithm =
              IF s >= 90 THEN "ML-KEM-1024"
              ELSE IF s >= 70 THEN "ML-KEM-768"
              ELSE IF s >= 50
                   THEN IF advice.enableHybridMode THEN "Hybrid-RSA-ML-KEM" ELSE "ML-KEM-768"
              ELSE IF s >= 25 THEN "ML-KEM-512"
              ELSE "RSA-OAEP"

\* C17: with threat score s, configured threshold t and hybrid mode h, the
\* factory recommends ML-KEM-768 when s >= t; when 50 <= s < t the hybrid
\* algorithm if h and ML-KEM-768 if not; below 50 the hybrid algorithm if h
\* and RSA-OAEP if not.
C17_FactoryRecommendation ==
    FactoryAdvised =>
        LET s == advice.threatLevel
            t == advice.quantumThresholdScore
            h == advice.enableHybridMode
        IN  advice.algorithm =
              IF s >= t THEN "ML-KEM-768"
              ELSE IF s >= 50 THEN (IF h THEN "Hybrid-RSA-ML-KEM" ELSE "ML-KEM-768")
              ELSE (IF h THEN "Hybrid-RSA-ML-KEM" ELSE "RSA-OAEP")

\* A recommendation made under a threshold of 0 with hybrid mode disabled.
C17_Witness ==
    /\ FactoryAdvised
    /\ advice.quantumThresholdScore = 0
    /\ ~advice.enableHybridMode
    /\ advice.algorithm = "ML-KEM-768"

(***************************************************************************)
(* Properties of the key identifiers.                                      *)
(***************************************************************************)
\* The order of two identifiers 'key_<Date.now()>_<suffix>': by the clock
\* reading, and by the random suffix within one reading.
IdBefore(j, k) == j[1] < k[1] \/ (j[1] = k[1] /\ j[2] < k[2])

\* The identifier under which a step stored a newly made key pair.
StoredAs(k) ==
    /\ nextPair' = nextPair + 1
    /\ PrivSlot(k) \in DOMAIN keyStore'
    /\ keyStore'[PrivSlot(k)].pair = nextPair'

\* C18: every step of generateKey that stores a key stores it under an
\* identifier no existing key has, so that no metadata and no material is
\* overwritten, and that identifier orders after the identifier of every
\* key created before.
C18_UniqueOrderedIds ==
    [][ \A k \in DOMAIN keys' :
          StoredAs(k) => /\ k \notin KeyIds
                         /\ \A j \in KeyIds : IdBefore(j, k) ]_vars

(***************************************************************************)
(* Properties of RSAProvider.encrypt.                                      *)
(***************************************************************************)
\* The last step was RSAProvider.encrypt under an RSA public key.
RsaEncrypted ==
    /\ pret.op = "encrypt"
    /\ pret.provider = "RSA-OAEP"
    /\ KeyKind(PublicKey(pret.pair)) = "RSA-OAEP"

\* C20: RSAProvider.encrypt under an RSA public key succeeds for every
\* plaintext that encodes to at most 190 bytes, and for every plaintext of
\* 191 bytes or more fails with ENCRYPTION_FAILED without having invoked
\* crypto.subtle.encrypt.
C20_RsaCapacityCap ==
    RsaEncrypted =>
        IF ByteLength(TextEncoder(pret.text)) <= 190
        THEN pret.ok
        ELSE /\ ~pret.ok
             /\ pret.cryptoError
             /\ pret.code = "ENCRYPTION_FAILED"
             /\ ~pret.primitive

\* A plaintext of 189 letters and one two-byte character, 191 bytes, was
\* refused.
C20_Witness ==
    /\ RsaEncrypted
    /\ pret.text.filler = 189
    /\ ByteLength(TextEncoder(pret.text)) = 191
    /\ ~pret.ok

(***************************************************************************)
(* Properties of the operations a provider does not support.               *)
(***************************************************************************)
EncryptionOnly == Providers \ { "CRYSTALS-Dilithium" }

\* The last step called an operation the provider does not support.
UnsupportedCall ==
    \/ pret.op \in { "sign", "verify" } /\ pret.provider \in EncryptionOnly
    \/ pret.op \in { "encrypt", "decrypt" } /\ pret.provider = "CRYSTALS-Dilithium"

\* C19: sign and verify on the RSA, ML-KEM and hybrid providers, and encrypt
\* and decrypt on the Dilithium provider, fail with a CryptoError of code
\* INVALID_OPERATION.
C19_UnsupportedFails ==
    UnsupportedCall =>
        /\ ~pret.ok
        /\ pret.cryptoError
        /\ pret.code = "INVALID_OPERATION"

(***************************************************************************)
(* Properties of recordKeyUsage.                                           *)
(***************************************************************************)
\* A step that is a recordKeyUsage call.
UsageRecorded == ret'.op = "recordKeyUsage"

\* C21: recordKeyUsage(k) returns normally; for a key of the table it sets
\* that key's lastUsed to the current time, emits one event, used for k, and
\* leaves every other field, every other key and the key material as they
\* were; for an identifier that names no key it emits nothing and changes
\* no table.
C21_UsageFrame ==
    [][ UsageRecorded =>
          /\ ret'.ok
          /\ UNCHANGED <<keyOrder, keyStore, eventListeners>>
          /\ IF ret'.arg \in KeyIds
             THEN /\ keys' = [keys EXCEPT ![ret'.arg].lastUsed = now]
                  /\ emitted' = << Event(ret'.arg, "used", keys[ret'.arg].algorithm, NoKey) >>
             ELSE /\ UNCHANGED keys
                  /\ emitted' = <<>> ]_vars

\* Usage was recorded for a revoked key while a throwing listener was
\* registered.
C21_Witness ==
    /\ ret.op = "recordKeyUsage"
    /\ ret.arg \in KeyIds
    /\ keys[ret.arg].status = "revoked"
    /\ keys[ret.arg].lastUsed = now
    /\ NotFound(ret.arg)
    /\ emitted # <<>>
    /\ \E i \in 1..Len(eventListeners) : ListenerThrows(eventListeners[i])

(***************************************************************************)
(* Properties of the provider cache.                                       *)
(***************************************************************************)
\* A step in which a createProvider call returns a provider.
Returns(algorithm) ==
    /\ fret'.op = "createProvider"
    /\ fret'.ok
    /\ fret'.selected = algorithm

\* A step in which a call goes on to instantiateProvider.
Instantiates(c, algorithm) ==
    /\ ftask[c].pc = "idle"
    /\ ftask'[c].pc = "instantiate"
    /\ ftask'[c].selected = algorithm

\* C22: a createProvider call for an algorithm the cache holds returns the
\* cached provider and constructs nothing, a call goes on to instantiate
\* only when the cache holds no entry for its algorithm, and a call returns
\* the provider the previous call for the same algorithm returned when
\* neither updateConfig nor clearCache ran in between.
C22_CachedInstance ==
    [][ \A a \in DOMAIN cache \cup DOMAIN served.by \cup { fret'.selected } :
          /\ \A c \in Callers : Instantiates(c, a) => a \notin DOMAIN cache
          /\ (Returns(a) /\ fret'.cached) =>
                 /\ a \in DOMAIN cache
                 /\ fret'.provider = cache[a]
                 /\ nextProvider' = nextProvider
          /\ (Returns(a) /\ a \in DOMAIN served.by) => fret'.provider = served.by[a] ]_vars

(***************************************************************************)
(* Properties of the threat score.                                         *)
(***************************************************************************)
\* The score was computed again with the temporal-urgency factor raised, or
\* left where it was, and the other factors as before.
Raised23 == threat.before # -1 /\ threat.factors.timeToQuantum >= threat.raisedFrom

\* C23: when calculateThreatScore is applied again with the temporal-urgency
\* factor raised and the three other factors unchanged, the score is not
\* lower than before.
C23_ThreatMonotone == Raised23 => threat.score >= threat.before

\* The urgency went from 0 to 100 and the score rose.
C23_Witness ==
    /\ Raised23
    /\ threat.raisedFrom = 0
    /\ threat.factors.timeToQuantum = 100
    /\ threat.score = threat.before + 40

\* C24: the score assessQuantumThreat returns is an integer from 0 to 100.
C24_ScoreInRange ==
    threat.op = "assessQuantumThreat" => threat.score \in 0..100

\* The highest score was returned.
C24_Witness ==
    /\ threat.op = "assessQuantumThreat"
    /\ threat.score = 100

(***************************************************************************)
(* Properties of the audit history and of the event log.                   *)
(***************************************************************************)
IsPrefix(short, long) ==
    Len(short) <= Len(long) /\ SubSeq(long, 1, Len(short)) = short

Audited == mret'.op \in { "auditCryptoUsage", "getSystemQuantumReadiness" }

\* C25: every audit, direct or through getSystemQuantumReadiness, appends
\* the report it produced to the history, the earlier entries stay as they
\* are and where they are, and the history never holds more than a fixed
\* maximum (here HistoryLimit) of reports.
C25_HistoryBounded ==
    [][ /\ IsPrefix(auditHistory, auditHistory')
        /\ Audited => auditHistory'[Len(auditHistory')] = mret'.report
        /\ Len(auditHistory') <= HistoryLimit ]_vars

\* C26: recordKeyEvent appends the event to the log of its key and leaves
\* the log of every other key as it was; no log ever loses or reorders an
\* entry or holds an event of another key; trackKeyLifecycle(k) returns the
\* log of k, the empty list when nothing was recorded for k, and changes
\* nothing.
C26_EventLog ==
    [][ /\ \A k \in DOMAIN keyEvents :
              /\ k \in DOMAIN keyEvents'
              /\ IsPrefix(keyEvents[k], keyEvents'[k])
        /\ \A k \in DOMAIN keyEvents' :
              \A i \in 1..Len(keyEvents'[k]) : keyEvents'[k][i].keyId = k
        /\ mret'.op = "recordKeyEvent" =>
              /\ mret'.keyId \in DOMAIN keyEvents'
              /\ keyEvents'[mret'.keyId] = Append(eventsOf(mret'.keyId), mret'.event)
              /\ \A k \in DOMAIN keyEvents' \ { mret'.keyId } :
                    k \in DOMAIN keyEvents /\ keyEvents'[k] = keyEvents[k]
        /\ mret'.op = "trackKeyLifecycle" =>
              /\ UNCHANGED keyEvents
              /\ mret'.value = IF mret'.keyId \in DOMAIN keyEvents
                               THEN keyEvents[mret'.keyId] ELSE <<>>
              /\ \A i \in 1..Len(mret'.value) : mret'.value[i].keyId = mret'.keyId ]_vars

\* The log of a key with two events was read while the other key has an
\* event of its own.
C26_Witness ==
    /\ mret.op = "trackKeyLifecycle"
    /\ Len(mret.value) = 2
    /\ mret.value[1].type = "used"
    /\ mret.value[2].type = "created"
    /\ \E k \in DOMAIN keyEvents : k # mret.keyId /\ Len(keyEvents[k]) = 1

(***************************************************************************)
(* Properties of the rotation scan and of rotation.                        *)
(***************************************************************************)
Scanned == ret.op = "checkKeyRotationNeeds"

FlaggedIn(flagged, keyId) == \E i \in 1..Len(flagged) : flagged[i] = keyId

\* A key the scan can only flag for the threat level.
ThreatOnly(keyId, scanNow) ==
    /\ keyId \in DOMAIN keys
    /\ keys[keyId].status = "active"
    /\ ~keys[keyId].isQuantumSafe
    /\ ~ageExpired(keys[keyId], scanNow)

\* C27: every key examined in one checkKeyRotationNeeds scan is compared
\* against the same threat score, so two active keys that are not
\* quantum-safe, have the same policy threshold and are not expired are
\* both flagged or both not flagged.
C27_ThreatSnapshot ==
    Scanned =>
        \A i, j \in 1..Len(ret.samples) :
            LET a == ret.samples[i]
                b == ret.samples[j]
            IN  /\ a.level = b.level
                /\ ( /\ ThreatOnly(a.keyId, ret.scanNow)
                     /\ ThreatOnly(b.keyId, ret.scanNow)
                     /\ rotationPolicies[keys[a.keyId].algorithm].quantumThreatThreshold
                          = rotationPolicies[keys[b.keyId].algorithm].quantumThreatThreshold )
                   => (FlaggedIn(ret.flagged, a.keyId) <=> FlaggedIn(ret.flagged, b.keyId))

\* C28: at most one rotated event carries previousKeyId = k, so at most one
\* successor key is announced for k, whatever rotateKey calls and sweeps
\* ran and however they overlapped.
C28_RotatedOnce ==
    \A i, j \in 1..Len(rotations.events) :
        rotations.events[i].previousKeyId = rotations.events[j].previousKeyId => i = j

RotationInFlight(keyId) ==
    \E c \in Callers :
        /\ task[c].pc \in { "createKeyPair", "rotateResume" }
        /\ task[c].target = keyId

HasSuccessor(keyId) ==
    \E i \in 1..Len(rotations.events) : rotations.events[i].previousKeyId = keyId

\* C29: a rotateKey whose replacement key could not be generated leaves the
\* old key as it was, so a key in status rotating either has a successor
\* key or its rotation is still going on.
C29_RotateAtomic ==
    \A keyId \in DOMAIN keys :
        keys[keyId].status = "rotating" =>
            HasSuccessor(keyId) \/ RotationInFlight(keyId)

Swept == ret.op = "performScheduledRotations" /\ ret.failed = <<>>

\* C30: when a sweep has completed with an empty failed list, a scan made
\* at once, at the same clock reading and under the threat score the sweep
\* saw, returns no key.
C30_SweepConverges ==
    Swept =>
        \A i \in 1..Len(ret.samples) :
            checkKeyRotationNeeds(now, ret.samples[i].level) = <<>>

(***************************************************************************)
(* Properties of the lifecycle events.                                     *)
(***************************************************************************)
\* The one event of the step is of this type, for this key, after this key.
EmitsOnly(type, keyId, previousKeyId) ==
    /\ Len(emitted') = 1
    /\ emitted'[1].type = type
    /\ emitted'[1].keyId = keyId
    /\ emitted'[1].previousKeyId = previousKeyId

\* The rotateKey of caller c, direct or inside a sweep, has generated its new
\* key and has its rotated event still to emit.
Resuming(c) == task[c].pc = "rotateResume"

\* C31: a successful generateKey emits exactly one created event for the
\* new key; a rotateKey emits the created event of the new key when the key
\* is generated and then, as it completes, exactly one rotated event whose
\* previousKeyId is the old key; a successful revokeKey emits exactly one
\* revoked event; no event but a rotated one has a previousKeyId, and a call
\* that fails emits nothing in the step it fails in.
C31_EventsInOrder ==
    [][ /\ (ret'.op = "generateKey" /\ ret'.ok) =>
              EmitsOnly("created", ret'.value, NoKey)
        /\ \A c \in Callers :
              /\ (~Resuming(c) /\ Resuming(c)') =>
                    EmitsOnly("created", task'[c].keyId, NoKey)
              /\ (Resuming(c) /\ Resuming(c)') => emitted' = <<>>
              /\ (Resuming(c) /\ ~Resuming(c)') =>
                    EmitsOnly("rotated", task[c].keyId, task[c].target)
        /\ (ret'.op = "rotateKey" /\ ret'.ok) =>
              /\ Resuming(ret'.caller)
              /\ EmitsOnly("rotated", ret'.value, ret'.arg)
        /\ (ret'.op = "revokeKey" /\ ret'.ok) =>
              EmitsOnly("revoked", ret'.arg, NoKey)
        /\ \A i \in 1..Len(emitted') :
              emitted'[i].previousKeyId # NoKey => emitted'[i].type = "rotated"
        /\ (ret'.op # None /\ ~ret'.ok) => emitted' = <<>> ]_vars

\* A rotateKey has completed and emitted its rotated event.
C31_Witness ==
    /\ ret.op = "rotateKey"
    /\ ret.ok
    /\ Len(emitted) = 1
    /\ emitted[1].type = "rotated"
    /\ emitted[1].previousKeyId = ret.arg
    /\ emitted[1].keyId = ret.value

Irretrievable(keyId) == getKey(keyId) = NoMaterial /\ getPublicKey(keyId) = NoMaterial

\* C32: only revocation deletes material.  Both halves of a key's material
\* are retrievable when the key has been created and is not revoked, neither
\* half is otherwise; in particular every active or rotating key has both
\* halves in the store.
C32_OnlyRevocationDeletes ==
    /\ \A slot \in DOMAIN keyStore : slot[1] \in DOMAIN keys
    /\ \A keyId \in DOMAIN keys :
          IF keys[keyId].status # "revoked"
          THEN Retrievable(keyId)
          ELSE Irretrievable(keyId)

\* The number of times l is registered in the list.
Registrations(listeners, l) ==
    Cardinality({ i \in 1..Len(listeners) : listeners[i] = l })

\* The number of times l was called in the deliveries.
Deliveries(calls, l) ==
    Cardinality({ j \in 1..Len(calls) : calls[j].listener = l })

\* C33: every listener registered when an event is emitted receives that
\* event exactly once for each of its registrations, whatever the listeners
\* do to the list while the event is being delivered.
C33_StableFanout ==
    [][ emitted' # <<>> =>
          /\ \A i \in 1..Len(eventListeners) :
                Deliveries(delivered', eventListeners[i])
                    = Registrations(eventListeners, eventListeners[i])
          /\ \A j \in 1..Len(delivered') : delivered'[j].event = emitted'[1] ]_vars

(***************************************************************************)
(* Properties of the providers the factory hands out.                      *)
(***************************************************************************)
Created == fret.op = "createProvider" /\ fret.ok

\* C34: every provider createProvider returns, and every provider in the
\* cache, reports isSupported() = true.
C34_ReturnsUsable ==
    /\ Created => fret.provider.isSupported
    /\ \A a \in DOMAIN cache : cache[a].isSupported

\* The call returned the provider of the algorithm it selected: from the
\* cache, or from the first instantiation.
NoFallback == fret.cached \/ Len(fret.attempts) = 1

\* C35: a cache entry stored under algorithm a holds a provider whose
\* algorithm field is a, and a createProvider call that did not fall back
\* returns a provider whose algorithm is the one selected.
C35_AlgorithmMatches ==
    /\ \A a \in DOMAIN cache : cache[a].algorithm = a
    /\ (Created /\ NoFallback) => fret.provider.algorithm = fret.selected

(***************************************************************************)
(* Properties of failing key generation.                                   *)
(***************************************************************************)
\* The step belongs to a generateKey of caller c that has not succeeded: the
\* call is begun, is waiting for createKeyPair, or fails.
GeneratingOrFailed(c) ==
    \/ task'[c].top = "generateKey"
    \/ ret'.op = "generateKey" /\ ret'.caller = c /\ ~ret'.ok

\* C36: a generateKey whose createKeyPair fails adds no metadata record and
\* no material, emits no event and leaves every existing key as it was, in
\* every step from the call's beginning to its failure.
C36_GenerateAtomic ==
    [][ \A c \in Callers :
          GeneratingOrFailed(c) =>
              /\ UNCHANGED <<keys, keyOrder, keyStore, nextPair>>
              /\ emitted' = <<>> ]_vars

\* A generateKey for an algorithm without key generation has failed while
\* another key exists.
C36_Witness ==
    /\ ret.op = "generateKey"
    /\ ~ret.ok
    /\ ret.error = "not implemented yet"
    /\ DOMAIN keys # {}
    /\ \A keyId \in DOMAIN keys : Retrievable(keyId)

(***************************************************************************)
(* Properties of failing provider calls.                                   *)
(***************************************************************************)
\* An encrypt or decrypt of the RSA, an ML-KEM or the hybrid provider failed.
CipherCallFailed ==
    /\ pret.op \in { "encrypt", "decrypt" }
    /\ pret.provider \in { "RSA-OAEP", "Hybrid-RSA-ML-KEM" } \cup MLKEMVariants
    /\ ~pret.ok

\* C37: a failing encrypt or decrypt of the RSA, ML-KEM or hybrid provider
\* rejects with a CryptoError of kind ENCRYPTION_FAILED or DECRYPTION_FAILED
\* respectively that carries the provider's algorithm.
C37_FailuresWrapped ==
    CipherCallFailed =>
        /\ pret.cryptoError
        /\ pret.code = IF pret.op = "encrypt" THEN "ENCRYPTION_FAILED"
                       ELSE "DECRYPTION_FAILED"
        /\ pret.algorithm = pret.provider

(***************************************************************************)
(* Properties of the quantum-safe flag.                                    *)
(***************************************************************************)
\* C38: for every identifier of the enumeration the factory's isQuantumSafe
\* equals the flag the key manager derives with isQuantumSafeAlgorithm, and
\* the flag stored with every key is the factory's answer for the key's
\* algorithm.
C38_OneFlag ==
    /\ fret.op = "isQuantumSafe" =>
          /\ fret.requested \in CryptoAlgorithmType
          /\ fret.value = isQuantumSafeAlgorithm(fret.requested)
    /\ \A keyId \in DOMAIN keys :
          keys[keyId].isQuantumSafe = isQuantumSafe(keys[keyId].algorithm)

(***************************************************************************)
(* Properties of the relay server.                                         *)
(***************************************************************************)
\* C39: once the disconnect handler of a socket has run, the socket id is
\* not in activeUsers.
C39_OnlyConnected ==
    \A s \in SocketIds :
        sockets[s].leaving = "done" => s \notin DOMAIN activeUsers
====
